---- MODULE Spec2Model ----
(***************************************************************************)
(* Food-truck transaction pipeline and its two read surfaces.              *)
(*                                                                         *)
(*   pipeline/transform.py   clean_transactions                            *)
(*   pipeline/load.py        lake writer and object-store upload           *)
(*   pipeline/main.py        one pipeline run                              *)
(*   dashboard_core/metrics.py, dashboard/app.py   aggregates, action cues *)
(*   pipeline/daily_report.py                      daily report            *)
(*                                                                         *)
(* A cell of a data frame is a record [k, n, s, t]:                        *)
(*   k = "null"   missing (None / NaN / NaT / pd.NA)                       *)
(*   k = "int"    integer n                                                *)
(*   k = "float"  floating point number, n is the value in tenths          *)
(*   k = "bool"   boolean, n is 0 or 1                                     *)
(*   k = "str"    text, s is its sequence of characters                    *)
(*   k = "ts"     timestamp, t = <<year, month, day, hour, minute>>        *)
(* Text is a sequence of one-character strings so that strip, case         *)
(* folding, parsing and formatting are computed, not assumed.              *)
(***************************************************************************)
EXTENDS Integers, Sequences, FiniteSets, TLC

VARIABLES
    cpc,            \* clean_transactions: "raw", "cleaned", "recleaned"
    raw,            \* the frame handed to clean_transactions
    cleaned,        \* its result
    recleaned,      \* the result of cleaning the result
    lpc,            \* pipeline run: "idle", "written", "uploading", "failed"
    nruns,          \* pipeline runs started so far
    transactions,   \* the cleaned frame of the current run
    dim_truck,      \* the truck dimension built from it
    dim_payment_method, \* the payment-method dimension built from it
    disk,           \* the local directory input/: relative path -> file content
    written,        \* the files the current run wrote: relative path -> content
    bucket,         \* the S3 bucket: key -> object content
    up,             \* the running upload_directory_to_s3 call
    dpc,            \* dashboard script run: "idle", "loaded", "based", "filtered",
                    \*   "kpis", "trend", "perf", "mix", "cues", "stopped", "raised",
                    \*   "error"
    dash_df,        \* the frame the dashboard holds at this point of the script
    kpis,           \* the four KPIs of the script run
    trend,          \* the result of compute_trend
    truck_perf,     \* the result of compute_truck_perf
    pm,             \* the result of compute_payment_mix
    cues,           \* the action cues: thresholds and flagged trucks
    rpc,            \* daily report: "idle", "configured", "raised", "built",
                    \*   "rendered"
    athena,         \* the results of the three queries of the report day
    metrics,        \* the result of build_metrics
    html_str,       \* the parts of the rendered report
    env,            \* the environment variables of the process
    log,            \* what the read surface has done so far, in order
    now,            \* the clock of the dashboard server, in seconds
    lake,           \* what the query engine answers for the date range
    cache,          \* st.cache_data: call -> [value, at]
    served          \* the calls of the last request: with and without the cache

cleanVars == <<cpc, raw, cleaned, recleaned>>

lakeVars == <<lpc, nruns, transactions, dim_truck, dim_payment_method, disk, written,
              bucket, up>>

dashVars == <<dpc, dash_df, kpis, trend, truck_perf, pm, cues>>

envVars == <<env, log>>

cacheVars == <<now, lake, cache, served>>

reportVars == <<rpc, athena, metrics, html_str>>

vars == <<cpc, raw, cleaned, recleaned, lpc, nruns, transactions, dim_truck,
          dim_payment_method, disk, written, bucket, up,
          dpc, dash_df, kpis, trend, truck_perf, pm, cues, rpc, athena, metrics, html_str,
          env, log, now, lake, cache, served>>

----------------------------------------------------------------------------
(* Cells *)

Null == [k |-> "null", n |-> 0, s |-> <<>>, t |-> <<>>]

IntV(i) == [k |-> "int", n |-> i, s |-> <<>>, t |-> <<>>]

FloatV(tenths) == [k |-> "float", n |-> tenths, s |-> <<>>, t |-> <<>>]

BoolV(b) == [k |-> "bool", n |-> b, s |-> <<>>, t |-> <<>>]

StrV(chars) == [k |-> "str", n |-> 0, s |-> chars, t |-> <<>>]

TsV(y, m, d, h, mi) == [k |-> "ts", n |-> 0, s |-> <<>>, t |-> <<y, m, d, h, mi>>]

IsNull(v) == v.k = "null"

IsNum(v) == v.k \in {"int", "float", "bool"}

\* numeric value of a number cell, in tenths
Tenths(v) == IF v.k = "float" THEN v.n ELSE v.n * 10

----------------------------------------------------------------------------
(* Text *)

DigitChars == <<"0", "1", "2", "3", "4", "5", "6", "7", "8", "9">>

LowerChars == <<"a", "b", "c", "d", "e", "f", "g", "h", "i", "j", "k", "l", "m",
                "n", "o", "p", "q", "r", "s", "t", "u", "v", "w", "x", "y", "z">>

UpperChars == <<"A", "B", "C", "D", "E", "F", "G", "H", "I", "J", "K", "L", "M",
                "N", "O", "P", "Q", "R", "S", "T", "U", "V", "W", "X", "Y", "Z">>

IsDigit(c) == \E i \in 1..Len(DigitChars) : DigitChars[i] = c

DigitVal(c) == (CHOOSE i \in 1..Len(DigitChars) : DigitChars[i] = c) - 1

UpperChar(c) ==
    IF \E i \in 1..Len(LowerChars) : LowerChars[i] = c
    THEN UpperChars[CHOOSE i \in 1..Len(LowerChars) : LowerChars[i] = c]
    ELSE c

LowerChar(c) ==
    IF \E i \in 1..Len(UpperChars) : UpperChars[i] = c
    THEN LowerChars[CHOOSE i \in 1..Len(UpperChars) : UpperChars[i] = c]
    ELSE c

\* str.upper / str.lower
Upper(chars) == [i \in 1..Len(chars) |-> UpperChar(chars[i])]

Lower(chars) == [i \in 1..Len(chars) |-> LowerChar(chars[i])]

RECURSIVE LStrip(_)
LStrip(chars) ==
    IF chars # <<>> /\ chars[1] = " " THEN LStrip(Tail(chars)) ELSE chars

RECURSIVE RStrip(_)
RStrip(chars) ==
    IF chars # <<>> /\ chars[Len(chars)] = " "
    THEN RStrip(SubSeq(chars, 1, Len(chars) - 1))
    ELSE chars

\* str.strip
Strip(chars) == RStrip(LStrip(chars))

AllDigits(chars) == chars # <<>> /\ \A i \in 1..Len(chars) : IsDigit(chars[i])

RECURSIVE NatOf(_)
NatOf(chars) ==
    IF chars = <<>> THEN 0
    ELSE NatOf(SubSeq(chars, 1, Len(chars) - 1)) * 10 + DigitVal(chars[Len(chars)])

RECURSIVE NatDigits(_)
NatDigits(i) ==
    IF i < 10 THEN <<DigitChars[i + 1]>>
    ELSE NatDigits(i \div 10) \o <<DigitChars[(i % 10) + 1]>>

\* str(i) of an integer
FormatInt(i) == IF i < 0 THEN <<"-">> \o NatDigits(-i) ELSE NatDigits(i)

\* repr of a float carrying one fractional digit: 7.0, 2.5, -0.5
FormatFloat(tenths) ==
    LET a == IF tenths < 0 THEN -tenths ELSE tenths
        body == NatDigits(a \div 10) \o <<".">> \o <<DigitChars[(a % 10) + 1]>>
    IN  IF tenths < 0 THEN <<"-">> \o body ELSE body

\* Parsing of one text as a number, as pd.to_numeric(errors="coerce") does on
\* the texts of this model: an optional sign, digits, and optionally a point
\* and one fractional digit; anything else is coerced to missing.
ParseNum(chars) ==
    LET neg == chars # <<>> /\ chars[1] = "-"
        body == IF neg THEN Tail(chars) ELSE chars
        dots == {i \in 1..Len(body) : body[i] = "."}
        sign == IF neg THEN -1 ELSE 1
    IN  IF dots = {}
        THEN IF AllDigits(body) THEN IntV(sign * NatOf(body)) ELSE Null
        ELSE LET p == CHOOSE i \in dots : TRUE
                 ip == SubSeq(body, 1, p - 1)
                 fp == SubSeq(body, p + 1, Len(body))
             IN  IF Cardinality(dots) = 1 /\ AllDigits(ip) /\ Len(fp) = 1 /\ AllDigits(fp)
                 THEN FloatV(sign * (NatOf(ip) * 10 + NatOf(fp)))
                 ELSE Null

----------------------------------------------------------------------------
(* Column conversions of pandas, cell by cell *)

\* Series.astype("string")
AsString(v) ==
    CASE v.k = "null" -> Null
      [] v.k = "str" -> v
      [] v.k = "int" -> StrV(FormatInt(v.n))
      [] v.k = "float" -> StrV(FormatFloat(v.n))
      [] v.k = "bool" -> StrV(IF v.n = 1 THEN <<"T", "r", "u", "e">>
                                         ELSE <<"F", "a", "l", "s", "e">>)
      [] OTHER -> Null

\* Series.str.strip / Series.str.lower on a string column
StrStrip(v) == IF v.k = "str" THEN StrV(Strip(v.s)) ELSE v

StrLower(v) == IF v.k = "str" THEN StrV(Lower(v.s)) ELSE v

\* pd.to_numeric(errors="coerce")
ToNumeric(v) ==
    CASE IsNum(v) -> v
      [] v.k = "str" -> ParseNum(v.s)
      [] OTHER -> Null

\* Parsing of one text as a timestamp: YYYY-MM-DDTHH:MM:SS (or a blank for T)
\* with every part in range; any other text of this model is no date.
ParseIso(chars) ==
    LET num(a, b) == NatOf(SubSeq(chars, a, b))
        shape == /\ Len(chars) = 19
                 /\ AllDigits(SubSeq(chars, 1, 4)) /\ chars[5] = "-"
                 /\ AllDigits(SubSeq(chars, 6, 7)) /\ chars[8] = "-"
                 /\ AllDigits(SubSeq(chars, 9, 10)) /\ chars[11] \in {"T", " "}
                 /\ AllDigits(SubSeq(chars, 12, 13)) /\ chars[14] = ":"
                 /\ AllDigits(SubSeq(chars, 15, 16)) /\ chars[17] = ":"
                 /\ AllDigits(SubSeq(chars, 18, 19))
    IN  IF shape /\ num(6, 7) \in 1..12 /\ num(9, 10) \in 1..31 /\ num(12, 13) \in 0..23
           /\ num(15, 16) \in 0..59 /\ num(18, 19) \in 0..59
        THEN TsV(num(1, 4), num(6, 7), num(9, 10), num(12, 13), num(15, 16))
        ELSE Null

\* pd.to_datetime(errors="coerce"): a datetime stays, a text is parsed, and
\* what cannot be parsed (or is missing) becomes NaT
ToDatetime(v) ==
    CASE v.k = "ts" -> v
      [] v.k = "str" -> ParseIso(v.s)
      [] OTHER -> Null

\* Series.astype("Int64") after to_numeric: whole numbers are kept, missing
\* stays missing, a number with a fractional part cannot be cast (TypeError)
CanInt64(v) == IsNull(v) \/ (IsNum(v) /\ Tenths(v) % 10 = 0)

AsInt64(v) == IF IsNull(v) THEN Null ELSE IntV(Tenths(v) \div 10)

\* Series.astype("float64")
AsFloat64(v) == IF IsNull(v) THEN Null ELSE FloatV(Tenths(v))

\* Series.astype("boolean") of an Int64 column holding 0 and 1
AsBoolean(v) == IF IsNull(v) THEN Null ELSE BoolV(IF Tenths(v) = 0 THEN 0 ELSE 1)

\* equality of two keys as drop_duplicates sees it: missing equals missing,
\* numbers compare by value, texts by characters, a text never equals a number
SameKey(a, b) ==
    \/ IsNull(a) /\ IsNull(b)
    \/ IsNum(a) /\ IsNum(b) /\ Tenths(a) = Tenths(b)
    \/ a.k = "str" /\ b.k = "str" /\ a.s = b.s

----------------------------------------------------------------------------
(* Data frames: [st, rows].  st = "ok": a frame with its columns; "nocols":  *)
(* pd.DataFrame of an empty row list, which has no column at all; "raise":  *)
(* the call raised.  Every row carries idx, its index label, which pandas   *)
(* keeps through filtering.                                                 *)

Frame(rows) == [st |-> "ok", rows |-> rows]

NoColumns == [st |-> "nocols", rows |-> <<>>]

Raised == [st |-> "raise", rows |-> <<>>]

\* the elements of a sequence at the positions S, in order
Pick(seq, S) ==
    LET F[i \in 0..Len(seq)] ==
            IF i = 0 THEN <<>>
            ELSE IF i \in S THEN Append(F[i - 1], seq[i]) ELSE F[i - 1]
    IN  F[Len(seq)]

\* DataFrame.duplicated(keep="last") negated
LastOfKeys(keys) ==
    {i \in 1..Len(keys) : \A j \in (i + 1)..Len(keys) : ~SameKey(keys[j], keys[i])}

\* no deduplication: every position
EveryKey(keys) == 1..Len(keys)

\* DataFrame.duplicated(keep="first") negated: the positions of the keys
\* that no earlier position holds
FirstOfKeys(keys) ==
    {i \in 1..Len(keys) : \A j \in 1..(i - 1) : ~SameKey(keys[j], keys[i])}


----------------------------------------------------------------------------
(* pipeline/transform.py: clean_transactions *)

\* df[c].astype("string").str.strip() for the text columns
StripTextCols(r) ==
    [r EXCEPT !.payment_method = StrStrip(AsString(@)),
              !.truck_name = StrStrip(AsString(@)),
              !.truck_description = StrStrip(AsString(@))]

\* the literal VOID, in any case, is missing
VoidToNA(v) ==
    IF v.k = "str" /\ Upper(v.s) = <<"V", "O", "I", "D">> THEN Null ELSE v

ParseTotal(r) == [r EXCEPT !.total = ToNumeric(VoidToNA(StrStrip(AsString(@))))]

\* the filter with the sign test left out
TotalNotNull(r) == ~IsNull(r.total)

TotalOk(r) == ~IsNull(r.total) /\ Tenths(r.total) > 0

ParseAt(r) == [r EXCEPT !.at = ToDatetime(@)]

AtOk(r) == ~IsNull(r.at)

ParseCardReader(r) == [r EXCEPT !.has_card_reader = ToNumeric(@)]

CardReaderOk(r) == IsNum(r.has_card_reader) /\ Tenths(r.has_card_reader) \in {0, 10}

ParseRating(r) == [r EXCEPT !.fsa_rating = ToNumeric(@)]

RatingOk(r) ==
    IsNum(r.fsa_rating) /\ Tenths(r.fsa_rating) >= 0 /\ Tenths(r.fsa_rating) <= 50

LowerPayment(r) == [r EXCEPT !.payment_method = StrLower(@)]

PaymentOk(r) ==
    r.payment_method.k = "str"
    /\ r.payment_method.s \in {<<"c", "a", "s", "h">>, <<"c", "a", "r", "d">>}

\* the deduplication with keep="last"
KeepLastDuplicates(rows) ==
    Pick(rows, LastOfKeys([i \in DOMAIN rows |-> rows[i].transaction_id]))

\* df.drop_duplicates(subset=["transaction_id"], keep="first")
DropDuplicates(rows) ==
    Pick(rows, FirstOfKeys([i \in DOMAIN rows |-> rows[i].transaction_id]))

\* pd.to_numeric(df[c], errors="coerce") of the identifier and integer columns
NumericIntCols(r) ==
    [r EXCEPT !.truck_id = ToNumeric(@),
              !.payment_method_id = ToNumeric(@),
              !.transaction_id = ToNumeric(@),
              !.fsa_rating = ToNumeric(@),
              !.has_card_reader = ToNumeric(@)]

IntColsCastable(r) ==
    /\ CanInt64(r.truck_id)
    /\ CanInt64(r.payment_method_id)
    /\ CanInt64(r.transaction_id)
    /\ CanInt64(r.fsa_rating)
    /\ CanInt64(r.has_card_reader)

\* .astype("Int64") of those columns, total to float64, the flag to boolean
CastCols(r) ==
    [r EXCEPT !.truck_id = AsInt64(@),
              !.payment_method_id = AsInt64(@),
              !.transaction_id = AsInt64(@),
              !.fsa_rating = AsInt64(@),
              !.has_card_reader = AsBoolean(AsInt64(@)),
              !.total = AsFloat64(@)]

\* the rows left after the validity filters, before deduplication
ValidRows(rows) ==
    LET s1 == [i \in DOMAIN rows |-> ParseTotal(StripTextCols(rows[i]))]
        s2 == SelectSeq(s1, TotalOk)
        s3 == SelectSeq([i \in DOMAIN s2 |-> ParseAt(s2[i])], AtOk)
        s4 == SelectSeq([i \in DOMAIN s3 |-> ParseCardReader(s3[i])], CardReaderOk)
        s5 == SelectSeq([i \in DOMAIN s4 |-> ParseRating(s4[i])], RatingOk)
    IN  SelectSeq([i \in DOMAIN s5 |-> LowerPayment(s5[i])], PaymentOk)

clean_transactions(df) ==
    IF df.st # "ok" THEN Raised
    ELSE LET s6 == DropDuplicates(ValidRows(df.rows))
             s7 == [i \in DOMAIN s6 |-> NumericIntCols(s6[i])]
         IN  IF \E i \in DOMAIN s7 : ~IntColsCastable(s7[i])
             THEN Raised
             ELSE Frame([i \in DOMAIN s7 |-> CastCols(s7[i])])

----------------------------------------------------------------------------
(* Raw rows handed to clean_transactions *)

MaxRows == 2

T(str) ==
    CASE str = "cash" -> <<"c", "a", "s", "h">>
      [] str = "unknown" -> <<"u", "n", "k", "n", "o", "w", "n">>
      [] str = "nan" -> <<"n", "a", "n">>
      [] str = "card" -> <<"c", "a", "r", "d">>
      [] str = " Card " -> <<" ", "C", "a", "r", "d", " ">>
      [] str = "CASH" -> <<"C", "A", "S", "H">>
      [] str = "cheque" -> <<"c", "h", "e", "q", "u", "e">>
      [] str = "VOID" -> <<"V", "O", "I", "D">>
      [] str = " void " -> <<" ", "v", "o", "i", "d", " ">>
      [] str = " 7 " -> <<" ", "7", " ">>
      [] str = "2.5" -> <<"2", ".", "5">>
      [] str = "0" -> <<"0">>
      [] str = "-3" -> <<"-", "3">>
      [] str = "abc" -> <<"a", "b", "c">>
      [] str = "1.0" -> <<"1", ".", "0">>
      [] str = "yes" -> <<"y", "e", "s">>
      [] str = "n/a" -> <<"n", "/", "a">>
      [] str = "Taco" -> <<"T", "a", "c", "o">>
      [] str = " Taco " -> <<" ", "T", "a", "c", "o", " ">>
      [] str = "Wrap" -> <<"W", "r", "a", "p">>
      [] str = " Wrap" -> <<" ", "W", "r", "a", "p">>
      [] str = "Card " -> <<"C", "a", "r", "d", " ">>
      [] str = "input" -> <<"i", "n", "p", "u", "t">>
      [] str = "t3" -> <<"t", "3">>
      [] str = "s3://t3/athena-results/" ->
            <<"s", "3", ":", "/", "/", "t", "3", "/", "a", "t", "h", "e", "n", "a", "-",
              "r", "e", "s", "u", "l", "t", "s", "/">>
      [] str = "truck" -> <<"t", "r", "u", "c", "k">>
      [] str = "payment_method" ->
            <<"p", "a", "y", "m", "e", "n", "t", "_", "m", "e", "t", "h", "o", "d">>
      [] str = "transaction" ->
            <<"t", "r", "a", "n", "s", "a", "c", "t", "i", "o", "n">>
      [] str = ".parquet" -> <<".", "p", "a", "r", "q", "u", "e", "t">>
      [] str = "year=" -> <<"y", "e", "a", "r", "=">>
      [] str = "month=" -> <<"m", "o", "n", "t", "h", "=">>
      [] str = "day=" -> <<"d", "a", "y", "=">>
      [] str = "hour=" -> <<"h", "o", "u", "r", "=">>
      [] str = "2024-03-05T09:05:00" ->
            <<"2", "0", "2", "4", "-", "0", "3", "-", "0", "5", "T",
              "0", "9", ":", "0", "5", ":", "0", "0">>
      [] str = "2024-13-05T09:05:00" ->
            <<"2", "0", "2", "4", "-", "1", "3", "-", "0", "5", "T",
              "0", "9", ":", "0", "5", ":", "0", "0">>
      [] str = "<script>alert(1)</script>" ->
            <<"<", "s", "c", "r", "i", "p", "t", ">", "a", "l", "e", "r", "t", "(", "1", ")",
              "<", "/", "s", "c", "r", "i", "p", "t", ">">>
      [] str = "A&B's \"x\"" -> <<"A", "&", "B", "'", "s", " ", "\"", "x", "\"">>

\* a row as the extract query delivers it, every field valid
BaseRow ==
    [idx |-> 0,
     transaction_id |-> IntV(1),
     at |-> TsV(2024, 3, 5, 14, 30),
     truck_name |-> StrV(T("Taco")),
     payment_method |-> StrV(T("cash")),
     total |-> IntV(5),
     truck_id |-> IntV(1),
     payment_method_id |-> IntV(1),
     fsa_rating |-> IntV(4),
     has_card_reader |-> IntV(1),
     truck_description |-> StrV(T("Taco"))]

\* transaction identifiers: integers, the same number as text, and missing
RawIds == {IntV(1), IntV(2), StrV(T("1.0")), Null}

\* one field of the base row replaced by another value that passes cleaning
ValidVariants ==
    {[BaseRow EXCEPT !.total = v] : v \in {StrV(T(" 7 ")), StrV(T("2.5"))}}
    \cup {[BaseRow EXCEPT !.at = v] : v \in {StrV(T("2024-03-05T09:05:00"))}}
    \cup {[BaseRow EXCEPT !.has_card_reader = v] : v \in {IntV(0), BoolV(1)}}
    \cup {[BaseRow EXCEPT !.fsa_rating = v] : v \in {IntV(0), IntV(5)}}
    \cup {[BaseRow EXCEPT !.payment_method = v] :
            v \in {StrV(T("card")), StrV(T(" Card ")), StrV(T("CASH"))}}
    \cup {[BaseRow EXCEPT !.truck_name = v] : v \in {StrV(T(" Taco "))}}
    \cup {[BaseRow EXCEPT !.truck_id = v] : v \in {IntV(2), Null}}

\* one field of the base row replaced by a value that cleaning rejects
InvalidVariants ==
    {[BaseRow EXCEPT !.total = v] :
        v \in {StrV(T("VOID")), StrV(T(" void ")), StrV(T("0")), StrV(T("-3")),
               StrV(T("abc")), IntV(0), Null}}
    \cup {[BaseRow EXCEPT !.at = v] :
            v \in {Null, StrV(T("n/a")), StrV(T("2024-13-05T09:05:00"))}}
    \cup {[BaseRow EXCEPT !.has_card_reader = v] :
            v \in {IntV(2), FloatV(5), StrV(T("yes")), Null}}
    \cup {[BaseRow EXCEPT !.fsa_rating = v] :
            v \in {IntV(6), IntV(-1), StrV(T("abc")), Null}}
    \cup {[BaseRow EXCEPT !.payment_method = v] : v \in {StrV(T("cheque")), Null}}

\* a rating inside [0, 5] that is no whole number: the Int64 cast raises
RaisingVariants == {[BaseRow EXCEPT !.fsa_rating = FloatV(45)]}

RawRows ==
    {[BaseRow EXCEPT !.transaction_id = i] : i \in RawIds}
    \cup ValidVariants \cup InvalidVariants \cup RaisingVariants

\* pd.DataFrame(rows): the rows in order, labelled 0, 1, 2, ... ; no row, no column
DataFrame(rows) ==
    IF rows = <<>> THEN NoColumns
    ELSE Frame([i \in 1..Len(rows) |-> [rows[i] EXCEPT !.idx = i - 1]])

RawFrames ==
    {DataFrame(rows) : rows \in UNION {[1..n -> RawRows] : n \in 0..MaxRows}}

----------------------------------------------------------------------------
(* Cleaning a raw frame, then cleaning the result again *)

EmptyDir == [p \in {} |-> <<>>]

NoUpload == [pending |-> {}, attempts |-> EmptyDir, done |-> {}, failed |-> {}]

LakeIdle ==
    /\ lpc = "idle"
    /\ nruns = 0
    /\ transactions = Raised
    /\ dim_truck = Raised
    /\ dim_payment_method = Raised
    /\ disk = EmptyDir
    /\ written = EmptyDir
    /\ bucket = EmptyDir
    /\ up = NoUpload

NoCues == [low_rev_threshold |-> <<0, 1>>, high_cash_threshold |-> <<0, 1>>,
           low_rev |-> {}, high_cash |-> {}]

NoKpis == [total_revenue |-> 0, n_transactions |-> 0, avg_sale |-> <<0, 0>>,
           cash_share |-> <<0, 0>>]

DashRest ==
    /\ kpis = NoKpis
    /\ trend = Raised
    /\ pm = Raised
    /\ cues = NoCues

DashIdle ==
    /\ dpc = "idle"
    /\ dash_df = Raised
    /\ truck_perf = Raised
    /\ DashRest

\* every variable of the configuration is set, nothing has been done
EnvIdle ==
    /\ env = [ATHENA_DATABASE |-> [set |-> TRUE, v |-> T("t3")],
              ATHENA_S3_OUTPUT |-> [set |-> TRUE, v |-> T("s3://t3/athena-results/")]]
    /\ log = <<>>

CacheIdle ==
    /\ now = 0
    /\ lake = Raised
    /\ cache = [c \in {} |-> <<>>]
    /\ served = <<>>

NoMetrics == [st |-> "none"]

ReportIdle ==
    /\ rpc = "idle"
    /\ athena = <<>>
    /\ metrics = NoMetrics
    /\ html_str = <<>>

CleanIdle ==
    /\ cpc = "raw"
    /\ raw = NoColumns
    /\ cleaned = Raised
    /\ recleaned = Raised

InitClean ==
    /\ cpc = "raw"
    /\ raw \in RawFrames
    /\ cleaned = Raised
    /\ recleaned = Raised
    /\ LakeIdle
    /\ DashIdle
    /\ ReportIdle
    /\ EnvIdle
    /\ CacheIdle

Clean ==
    /\ cpc = "raw"
    /\ cleaned' = clean_transactions(raw)
    /\ cpc' = "cleaned"
    /\ UNCHANGED <<raw, recleaned>>
    /\ UNCHANGED <<lakeVars, dashVars, reportVars, envVars, cacheVars>>

Reclean ==
    /\ cpc = "cleaned"
    /\ cleaned.st = "ok"
    /\ recleaned' = clean_transactions(cleaned)
    /\ cpc' = "recleaned"
    /\ UNCHANGED <<raw, cleaned>>
    /\ UNCHANGED <<lakeVars, dashVars, reportVars, envVars, cacheVars>>

NextClean == Clean \/ Reclean

SpecClean == InitClean /\ [][NextClean]_vars

----------------------------------------------------------------------------
(* Claims about clean_transactions *)

CleanDone == cpc \in {"cleaned", "recleaned"} /\ cleaned.st = "ok"

Survives(i) == \E k \in 1..Len(cleaned.rows) : cleaned.rows[k].idx = raw.rows[i].idx

\* a raw row with a missing or unparseable amount, timestamp, card-reader
\* flag, rating or payment method
MissingOrUnparseable(r) ==
    \/ IsNull(ToNumeric(StrStrip(AsString(r.total))))
    \/ IsNull(ToDatetime(r.at))
    \/ IsNull(ToNumeric(r.has_card_reader))
    \/ IsNull(ToNumeric(r.fsa_rating))
    \/ IsNull(r.payment_method)

\* C1: every record returned by clean_transactions has a non-null total > 0, a
\* parsed timestamp, a payment method that is exactly cash or card, a card
\* reader flag in {0, 1} and a rating in [0, 5]; a raw row with a missing or
\* unparseable value in one of these fields is not among the records returned.
C1_SurvivorsAreValid ==
    CleanDone =>
        /\ \A k \in 1..Len(cleaned.rows) :
            LET r == cleaned.rows[k]
            IN  /\ r.total.k = "float" /\ r.total.n > 0
                /\ r.at.k = "ts"
                /\ r.payment_method \in {StrV(<<"c", "a", "s", "h">>),
                                         StrV(<<"c", "a", "r", "d">>)}
                /\ r.has_card_reader \in {BoolV(0), BoolV(1)}
                /\ r.fsa_rating.k = "int" /\ r.fsa_rating.n \in 0..5
        /\ \A i \in 1..Len(raw.rows) :
            MissingOrUnparseable(raw.rows[i]) => ~Survives(i)

\* C1 witness: a frame holding a rejected row and an accepted row was cleaned
C1_Witness ==
    /\ CleanDone
    /\ Len(cleaned.rows) = 1
    /\ Len(raw.rows) = 2
    /\ \E i \in 1..2 : MissingOrUnparseable(raw.rows[i])

RawValid(i) == \E k \in 1..Len(ValidRows(raw.rows)) : ValidRows(raw.rows)[k].idx = raw.rows[i].idx

SharesId(i, j) == SameKey(raw.rows[i].transaction_id, raw.rows[j].transaction_id)

C3_Idempotent == cpc = "recleaned" => recleaned = cleaned

----------------------------------------------------------------------------
(* pipeline/transform.py: the dimension builders *)

TruckCols(r) ==
    [idx |-> r.idx,
     truck_id |-> r.truck_id,
     truck_name |-> r.truck_name,
     truck_description |-> r.truck_description,
     has_card_reader |-> r.has_card_reader,
     fsa_rating |-> r.fsa_rating]

TruckNumeric(r) ==
    [r EXCEPT !.truck_id = ToNumeric(@),
              !.has_card_reader = ToNumeric(@),
              !.fsa_rating = ToNumeric(@)]

TruckCast(r) ==
    [r EXCEPT !.truck_id = AsInt64(@),
              !.has_card_reader = AsBoolean(AsInt64(@)),
              !.fsa_rating = AsInt64(@),
              !.truck_name = StrStrip(AsString(@)),
              !.truck_description = StrStrip(AsString(@))]

TruckKeyOk(r) == ~IsNull(r.truck_id)

build_truck_metadata(df) ==
    IF df.st # "ok" THEN Raised
    ELSE LET cols == [i \in DOMAIN df.rows |-> TruckCols(df.rows[i])]
             first == Pick(cols, FirstOfKeys([i \in DOMAIN cols |-> cols[i].truck_id]))
             meta == [i \in DOMAIN first |-> TruckNumeric(first[i])]
         IN  IF \E i \in DOMAIN meta :
                    ~(CanInt64(meta[i].truck_id) /\ CanInt64(meta[i].has_card_reader)
                      /\ CanInt64(meta[i].fsa_rating))
             THEN Raised
             ELSE Frame(SelectSeq([i \in DOMAIN meta |-> TruckCast(meta[i])], TruckKeyOk))

PaymentCols(r) ==
    [idx |-> r.idx,
     payment_method_id |-> r.payment_method_id,
     payment_method |-> r.payment_method]

PaymentNumeric(r) == [r EXCEPT !.payment_method_id = ToNumeric(@)]

PaymentCast(r) ==
    [r EXCEPT !.payment_method_id = AsInt64(@),
              !.payment_method = StrLower(StrStrip(AsString(@)))]

PaymentKeyOk(r) == ~IsNull(r.payment_method_id)

build_payment_method_metadata(df) ==
    IF df.st # "ok" THEN Raised
    ELSE LET cols == [i \in DOMAIN df.rows |-> PaymentCols(df.rows[i])]
             first == Pick(cols,
                           FirstOfKeys([i \in DOMAIN cols |-> cols[i].payment_method_id]))
             meta == [i \in DOMAIN first |-> PaymentNumeric(first[i])]
         IN  IF \E i \in DOMAIN meta : ~CanInt64(meta[i].payment_method_id)
             THEN Raised
             ELSE Frame(SelectSeq([i \in DOMAIN meta |-> PaymentCast(meta[i])],
                                  PaymentKeyOk))

----------------------------------------------------------------------------
(* pipeline/load.py: the lake writer.  A directory is a function from the     *)
(* path of a file, relative to base_dir, to the rows the file holds; a path   *)
(* is the sequence of its components, each a text.                            *)

\* a writer that adds the rows to the file that is there
PutAppend(dir, path, content) ==
    [q \in (DOMAIN dir) \cup {path} |->
        IF q # path THEN dir[q]
        ELSE IF path \in DOMAIN dir THEN dir[path] \o content ELSE content]

\* Path.mkdir(exist_ok=True) and DataFrame.to_parquet: the file is created or
\* replaced as a whole, every other file of the directory stays
Put(dir, path, content) ==
    [q \in (DOMAIN dir) \cup {path} |-> IF q = path THEN content ELSE dir[q]]

write_unpartitioned_parquet(dir, df, out_path) == Put(dir, out_path, df.rows)

\* f"{int(x)}": no padding
NoPad(x) == NatDigits(x)

\* f"{int(x):02d}"
Pad2(x) == IF Len(NatDigits(x)) < 2 THEN <<"0">> \o NatDigits(x) ELSE NatDigits(x)

\* the year, month, day and hour columns of a row
PartitionKey(r) ==
    <<FormatInt(r.at.t[1]), Pad2(r.at.t[2]), Pad2(r.at.t[3]), Pad2(r.at.t[4])>>

\* root_dir / f"year={y}" / f"month={m}" / f"day={d}" / f"hour={h}" / filename
LeafPath(key) ==
    <<T("transaction"), T("year=") \o key[1], T("month=") \o key[2],
      T("day=") \o key[3], T("hour=") \o key[4], T("transaction") \o T(".parquet")>>

\* df.groupby([...], sort=False): the keys in order of first appearance
GroupKeys(rows) ==
    LET keep == {i \in 1..Len(rows) :
                    \A j \in 1..(i - 1) : PartitionKey(rows[j]) # PartitionKey(rows[i])}
        F[i \in 0..Len(rows)] ==
            IF i = 0 THEN <<>>
            ELSE IF i \in keep THEN Append(F[i - 1], PartitionKey(rows[i])) ELSE F[i - 1]
    IN  F[Len(rows)]

Chunk(rows, key) == SelectSeq(rows, LAMBDA r : PartitionKey(r) = key)

write_time_partitioned_transactions(dir, df) ==
    LET rows == SelectSeq([i \in DOMAIN df.rows |-> ParseAt(df.rows[i])], AtOk)
        keys == GroupKeys(rows)
        W[i \in 0..Len(keys)] ==
            IF i = 0 THEN dir
            ELSE Put(W[i - 1], LeafPath(keys[i]), Chunk(rows, keys[i]))
    IN  W[Len(keys)]

TruckFile == <<T("truck"), T("truck") \o T(".parquet")>>

PaymentFile == <<T("payment_method"), T("payment_method") \o T(".parquet")>>

write_data_lake_structure(dir, truck_df, payment_df, df) ==
    write_time_partitioned_transactions(
        write_unpartitioned_parquet(
            write_unpartitioned_parquet(dir, truck_df, TruckFile),
            payment_df, PaymentFile),
        df)

RECURSIVE AsPosix(_)
AsPosix(path) ==
    IF Len(path) = 1 THEN path[1]
    ELSE path[1] \o <<"/">> \o AsPosix(Tail(path))

\* f"{prefix}/{file.relative_to(local_dir).as_posix()}"
S3Key(prefix, path) == prefix \o <<"/">> \o AsPosix(path)

----------------------------------------------------------------------------
(* pipeline/main.py: pipeline runs, one after the other, in one directory *)

MaxRuns == 2

\* rows of the operational store that successive extracts can return
RunPool ==
    <<[BaseRow EXCEPT !.transaction_id = IntV(1), !.at = TsV(2024, 3, 5, 14, 30)],
      [BaseRow EXCEPT !.transaction_id = IntV(2), !.at = TsV(2024, 3, 5, 14, 45),
                      !.truck_id = IntV(2), !.truck_name = StrV(T("Wrap")),
                      !.payment_method_id = IntV(2), !.payment_method = StrV(T("card"))],
      [BaseRow EXCEPT !.transaction_id = IntV(3), !.at = TsV(2024, 11, 23, 7, 59),
                      !.payment_method_id = IntV(2), !.payment_method = StrV(T("card"))]>>

\* fetch_transactions_joined: some of the rows, in table order
Extracts == {DataFrame(Pick(RunPool, S)) : S \in SUBSET (1..Len(RunPool))}

Init ==
    /\ CleanIdle
    /\ LakeIdle
    /\ DashIdle
    /\ ReportIdle
    /\ EnvIdle
    /\ CacheIdle

\* main up to the upload: extract, clean, build the dimensions, write the lake
PipelineRun ==
    /\ lpc \in {"idle", "failed"}
    /\ nruns < MaxRuns
    /\ nruns' = nruns + 1
    /\ up' = NoUpload
    /\ \E fetched \in Extracts :
       \E tx \in {clean_transactions(fetched)} :
       \E trucks \in {build_truck_metadata(tx)} :
       \E methods \in {build_payment_method_metadata(tx)} :
            /\ transactions' = tx
            /\ dim_truck' = trucks
            /\ dim_payment_method' = methods
            /\ IF tx.st = "ok" /\ trucks.st = "ok" /\ methods.st = "ok"
               THEN /\ disk' = write_data_lake_structure(disk, trucks, methods, tx)
                    /\ written' = write_data_lake_structure(EmptyDir, trucks, methods, tx)
                    /\ lpc' = "written"
               ELSE /\ lpc' = "failed"
                    /\ UNCHANGED <<disk, written>>
    /\ UNCHANGED <<bucket>>
    /\ UNCHANGED <<cleanVars, dashVars, reportVars, envVars, cacheVars>>

\* upload_directory_to_s3: the client is made and the walk of the tree begins
UploadStart ==
    /\ lpc = "written"
    /\ lpc' = "uploading"
    /\ up' = [pending |-> DOMAIN disk,
              attempts |-> [f \in DOMAIN disk |-> 0],
              done |-> {},
              failed |-> {}]
    /\ UNCHANGED <<nruns, transactions, dim_truck, dim_payment_method, disk, written, bucket>>
    /\ UNCHANGED <<cleanVars, dashVars, reportVars, envVars, cacheVars>>

\* the next file of the walk is uploaded
UploadOk(f) ==
    /\ lpc = "uploading"
    /\ f \in up.pending
    /\ bucket' = Put(bucket, S3Key(T("input"), f), disk[f])
    /\ up' = [up EXCEPT !.pending = @ \ {f},
                        !.attempts[f] = @ + 1,
                        !.done = @ \cup {f}]
    /\ UNCHANGED <<lpc, nruns, transactions, dim_truck, dim_payment_method, disk, written>>
    /\ UNCHANGED <<cleanVars, dashVars, reportVars, envVars, cacheVars>>

\* a failed upload that is tried again
UploadFailRetry(f) ==
    /\ lpc = "uploading"
    /\ f \in up.pending
    /\ up.attempts[f] < 2
    /\ up' = [up EXCEPT !.attempts[f] = @ + 1]
    /\ UNCHANGED <<lpc, nruns, transactions, dim_truck, dim_payment_method, disk, written,
                   bucket>>
    /\ UNCHANGED <<cleanVars, dashVars, reportVars, envVars, cacheVars>>

\* s3.upload_file raises: the exception leaves the loop, the call and main
UploadFail(f) ==
    /\ lpc = "uploading"
    /\ f \in up.pending
    /\ lpc' = "failed"
    /\ up' = [up EXCEPT !.attempts[f] = @ + 1, !.failed = {f}]
    /\ UNCHANGED <<nruns, transactions, dim_truck, dim_payment_method, disk, written, bucket>>
    /\ UNCHANGED <<cleanVars, dashVars, reportVars, envVars, cacheVars>>

\* the walk is over
UploadDone ==
    /\ lpc = "uploading"
    /\ up.pending = {}
    /\ lpc' = "idle"
    /\ UNCHANGED <<nruns, transactions, dim_truck, dim_payment_method, disk, written, bucket,
                   up>>
    /\ UNCHANGED <<cleanVars, dashVars, reportVars, envVars, cacheVars>>

Next ==
    \/ PipelineRun
    \/ UploadStart
    \/ \E f \in DOMAIN disk : UploadOk(f)
    \/ \E f \in DOMAIN disk : UploadFail(f)
    \/ UploadDone

Spec == Init /\ [][Next]_vars

----------------------------------------------------------------------------
(* Claims about the lake writer and the upload *)

IsLeaf(path) == path[1] = T("transaction")

Leaves(dir) == {q \in DOMAIN dir : IsLeaf(q)}

TwoDigits(x) == <<DigitChars[(x \div 10) + 1], DigitChars[(x % 10) + 1]>>

FourDigits(x) == TwoDigits(x \div 100) \o TwoDigits(x % 100)

\* year=YYYY/month=MM/day=DD/hour=HH under transaction/, from the timestamp
HourBucket(at) ==
    <<T("transaction"),
      <<"y", "e", "a", "r", "=">> \o FourDigits(at.t[1]),
      <<"m", "o", "n", "t", "h", "=">> \o TwoDigits(at.t[2]),
      <<"d", "a", "y", "=">> \o TwoDigits(at.t[3]),
      <<"h", "o", "u", "r", "=">> \o TwoDigits(at.t[4]),
      T("transaction") \o T(".parquet")>>

InBucket(rows, q) == SelectSeq(rows, LAMBDA r : HourBucket(r.at) = q)

Holds(content, r) == \E k \in 1..Len(content) : content[k] = r

\* C4: in one call of write_time_partitioned_transactions every transaction
\* is written to exactly one leaf file, the one at year=YYYY/month=MM/day=DD/
\* hour=HH of its truncated timestamp with two-digit month, day and hour, and
\* every leaf written holds all and only the call's transactions of its hour;
\* 2024-03-05T14:30 goes to year=2024/month=03/day=05/hour=14.
C4_OneLeafPerHourBucket ==
    lpc = "written" =>
        /\ \A i \in 1..Len(transactions.rows) :
            LET r == transactions.rows[i]
            IN  /\ HourBucket(r.at) \in Leaves(written)
                /\ \A q \in Leaves(written) :
                    Holds(written[q], r) <=> q = HourBucket(r.at)
                /\ r.at.t = <<2024, 3, 5, 14, 30>> =>
                    Holds(written[<<T("transaction"),
                                    <<"y", "e", "a", "r", "=", "2", "0", "2", "4">>,
                                    <<"m", "o", "n", "t", "h", "=", "0", "3">>,
                                    <<"d", "a", "y", "=", "0", "5">>,
                                    <<"h", "o", "u", "r", "=", "1", "4">>,
                                    T("transaction") \o T(".parquet")>>], r)
        /\ \A q \in Leaves(written) :
            /\ written[q] # <<>>
            /\ written[q] = InBucket(transactions.rows, q)

\* C4 witness: three transactions were written, two of them to the same leaf
C4_Witness ==
    /\ lpc = "written"
    /\ Len(transactions.rows) = 3
    /\ Cardinality(Leaves(written)) = 2

\* C5: the directory a run hands to the upload holds only the dimension files
\* and the leaves written from that run's transactions, no leaf of an earlier
\* run.
C5_FreshOutputDirectory == lpc = "written" => disk = written

\* C6: upload_directory_to_s3 attempts each file of the tree at most once,
\* under the key prefix/relative-path; when no upload fails every file has
\* been uploaded exactly once; when an upload fails the call ends there: the
\* failed file has been attempted once, the files uploaded before it are in
\* the bucket, and no other file has been attempted.
C6_UploadOnceNoRetryNoRollback ==
    lpc \in {"uploading", "failed", "idle"} =>
        /\ \A f \in DOMAIN up.attempts :
            /\ up.attempts[f] <= 1
            /\ up.attempts[f] = 1 <=> f \in up.done \cup up.failed
        /\ \A f \in up.done :
            /\ S3Key(T("input"), f) \in DOMAIN bucket
            /\ bucket[S3Key(T("input"), f)] = disk[f]
        /\ (TruckFile \in up.done) =>
              <<"i", "n", "p", "u", "t", "/", "t", "r", "u", "c", "k", "/",
                "t", "r", "u", "c", "k", ".", "p", "a", "r", "q", "u", "e", "t">>
                  \in DOMAIN bucket
        /\ (lpc = "idle" /\ up.attempts # EmptyDir) =>
              (up.done = DOMAIN disk /\ up.failed = {})
        /\ lpc = "failed" => up.done \cap up.failed = {}
        /\ lpc = "uploading" => up.failed = {}

\* C6 witness: an upload failed after another file had been uploaded
C6_Witness ==
    /\ lpc = "failed"
    /\ up.failed # {}
    /\ up.done # {}
    /\ \E f \in up.pending : up.attempts[f] = 0

----------------------------------------------------------------------------
(* dashboard_core/transforms.py, dashboard_core/metrics.py, dashboard/app.py  *)
(*                                                                            *)
(* A row of the dashboard frame is [idx, transaction_id, truck_name,          *)
(* payment_method, total, day_dt, hour_ts].  The text columns have the        *)
(* pandas string dtype, whose missing value is pd.NA.  A ratio is a pair      *)
(* <<numerator, denominator>> with a positive denominator, so that means      *)
(* and interpolated percentiles are compared exactly.                         *)

\* a / b <= c / d and a / b = c / d for positive b and d
RatLeq(x, y) == x[1] * y[2] <= y[1] * x[2]

RatEq(x, y) == x[1] * y[2] = y[1] * x[2]

\* pd.to_numeric(df["total"], errors="coerce") / 100: the amounts of this
\* model are whole multiples of ten pence, the quotient is exact
Div100(v) == IF IsNull(v) THEN Null ELSE FloatV(Tenths(v) \div 100)

CleanBaseCols(r) ==
    [r EXCEPT !.total = Div100(ToNumeric(@)),
              !.truck_name = StrStrip(AsString(@)),
              !.payment_method = StrLower(StrStrip(AsString(@))),
              !.day_dt = ToDatetime(@),
              !.hour_ts = ToDatetime(@)]

\* dropna(subset=["total", "truck_name", "day_dt", "hour_ts"]), total > 0
CleanBaseOk(r) ==
    /\ ~IsNull(r.total) /\ ~IsNull(r.truck_name)
    /\ ~IsNull(r.day_dt) /\ ~IsNull(r.hour_ts)
    /\ Tenths(r.total) > 0

clean_base_df(df) ==
    Frame(SelectSeq([i \in DOMAIN df.rows |-> CleanBaseCols(df.rows[i])], CleanBaseOk))

\* Series.isin(values) on a string column: a missing value is in no tuple
IsIn(v, values) == v.k = "str" /\ v.s \in values

apply_filters(df, payment_filter, selected_trucks) ==
    LET byPayment == IF payment_filter # {}
                     THEN SelectSeq(df.rows, LAMBDA r : IsIn(r.payment_method, payment_filter))
                     ELSE df.rows
    IN  Frame(IF selected_trucks # {}
              THEN SelectSeq(byPayment, LAMBDA r : IsIn(r.truck_name, selected_trucks))
              ELSE byPayment)

\* sorted(tmp_for_trucks["truck_name"].dropna().unique().tolist())
AllTrucks(rows, payment_filter) ==
    {rows[i].truck_name.s : i \in {j \in DOMAIN rows :
        /\ ~IsNull(rows[j].truck_name)
        /\ (payment_filter = {} \/ IsIn(rows[j].payment_method, payment_filter))}}

\* the order of Python on the characters of truck names: by code point
CharOrder == <<" ">> \o DigitChars \o UpperChars \o LowerChars

CharCode(c) == CHOOSE i \in DOMAIN CharOrder : CharOrder[i] = c

\* a < b on two texts
TextLess(a, b) ==
    \E k \in 1..(Len(b)) :
        /\ \A j \in 1..(k - 1) : j <= Len(a) /\ a[j] = b[j]
        /\ (k > Len(a) \/ CharCode(a[k]) < CharCode(b[k]))

\* the group keys of groupby(..., sort=True), in ascending order
SortedTexts(S) ==
    [i \in 1..Cardinality(S) |->
        CHOOSE x \in S : Cardinality({y \in S : TextLess(y, x)}) = i - 1]

\* groupby("truck_name"): dropna=True by default, a row whose key is missing
\* belongs to no group
GroupNames(rows) ==
    {rows[i].truck_name.s : i \in {j \in DOMAIN rows : ~IsNull(rows[j].truck_name)}}

Group(rows, name) ==
    SelectSeq(rows, LAMBDA r : r.truck_name.k = "str" /\ r.truck_name.s = name)

\* ("total", "sum"), in tenths: missing amounts are skipped
SumTotal(rows) ==
    LET S[i \in 0..Len(rows)] ==
            IF i = 0 THEN 0
            ELSE S[i - 1] + (IF IsNull(rows[i].total) THEN 0 ELSE Tenths(rows[i].total))
    IN  S[Len(rows)]

\* ("total", "mean"): the sum over the number of amounts present, as a ratio
\* of pounds; no amount present gives NaN, written <<0, 0>>
MeanTotal(rows) ==
    LET present == {i \in DOMAIN rows : ~IsNull(rows[i].total)}
    IN  IF present = {} THEN <<0, 0>> ELSE <<SumTotal(rows), 10 * Cardinality(present)>>

\* ("transaction_id", "nunique"): the distinct identifiers present
NUnique(rows) ==
    Cardinality({Tenths(rows[i].transaction_id) :
                    i \in {j \in DOMAIN rows : ~IsNull(rows[j].transaction_id)}})

\* s.eq("cash").mean() on a string column: eq gives <NA> where the method is
\* missing, and mean skips <NA>; the ratio is cash over the methods present.
\* With no method present the mean is pd.NA, denominator 0 here.
CashShare(rows) ==
    LET present == {i \in DOMAIN rows : ~IsNull(rows[i].payment_method)}
        cash == {i \in present : rows[i].payment_method.s = T("cash")}
    IN  <<Cardinality(cash), Cardinality(present)>>

TruckPerfRow(rows, name) ==
    [truck_name |-> StrV(name),
     revenue |-> FloatV(SumTotal(Group(rows, name))),
     transactions |-> NUnique(Group(rows, name)),
     avg_sale |-> MeanTotal(Group(rows, name)),
     cash_share |-> CashShare(Group(rows, name))]

\* float(pd.NA) raises TypeError, and the exception leaves agg
compute_truck_perf(df) ==
    LET names == SortedTexts(GroupNames(df.rows))
        perf == [i \in DOMAIN names |-> TruckPerfRow(df.rows, names[i])]
    IN  IF \E i \in DOMAIN perf : perf[i].cash_share[2] = 0
        THEN Raised
        ELSE Frame(perf)

\* the k-th smallest (k from 0) of a sequence of ratios
OrderStat(vals, k) ==
    vals[CHOOSE i \in DOMAIN vals :
            /\ Cardinality({j \in DOMAIN vals : ~RatLeq(vals[i], vals[j])}) <= k
            /\ k < Cardinality({j \in DOMAIN vals : RatLeq(vals[j], vals[i])})]

\* Series.quantile(q, interpolation="lower")
QuantileLower(vals, q) ==
    IF Len(vals) = 0 THEN <<0, 0>>
    ELSE OrderStat(vals, (q[1] * (Len(vals) - 1)) \div q[2])

\* Series.quantile(q), interpolation="linear": the position q * (n - 1) in the
\* sorted values, interpolated between its two neighbours; NaN (<<0, 0>>) for
\* an empty column
Quantile(vals, q) ==
    IF Len(vals) = 0 THEN <<0, 0>>
    ELSE LET pos == q[1] * (Len(vals) - 1)
             lo == pos \div q[2]
             r == pos % q[2]
             a == OrderStat(vals, lo)
             b == OrderStat(vals, IF r = 0 THEN lo ELSE lo + 1)
         IN  <<(q[2] - r) * a[1] * b[2] + r * b[1] * a[2], q[2] * a[2] * b[2]>>

\* the revenue column, in pounds, and the cash_share column
RevenueCol(rows) == [i \in DOMAIN rows |-> <<rows[i].revenue.n, 10>>]

CashShareCol(rows) == [i \in DOMAIN rows |-> rows[i].cash_share]

low_rev_threshold(rows) == Quantile(RevenueCol(rows), <<1, 4>>)

high_cash_threshold(rows) == Quantile(CashShareCol(rows), <<3, 4>>)

\* truck_perf[truck_perf["revenue"] < low_rev_threshold]
low_rev_strict(rows, threshold) ==
    {rows[i].truck_name.s : i \in {j \in DOMAIN rows :
        threshold[2] # 0 /\ ~RatLeq(threshold, <<rows[j].revenue.n, 10>>)}}

\* truck_perf[truck_perf["revenue"] <= low_rev_threshold]: a comparison with
\* NaN selects nothing
low_rev(rows, threshold) ==
    {rows[i].truck_name.s : i \in {j \in DOMAIN rows :
        threshold[2] # 0 /\ RatLeq(<<rows[j].revenue.n, 10>>, threshold)}}

\* truck_perf[truck_perf["cash_share"] >= high_cash_threshold]
high_cash(rows, threshold) ==
    {rows[i].truck_name.s : i \in {j \in DOMAIN rows :
        threshold[2] # 0 /\ RatLeq(threshold, rows[j].cash_share)}}

\* a < b on two timestamps
TsLess(a, b) ==
    \E k \in 1..5 : (\A j \in 1..(k - 1) : a.t[j] = b.t[j]) /\ a.t[k] < b.t[k]

\* the group keys of groupby(key), missing keys dropped, after sort_values(key)
SortedStamps(S) ==
    [i \in 1..Cardinality(S) |->
        CHOOSE x \in S : Cardinality({y \in S : TsLess(y, x)}) = i - 1]

\* the column compute_trend groups by
TrendKey(r, time_grain) == IF time_grain = "Daily" THEN r.day_dt ELSE r.hour_ts

TrendRow(rows, time_grain, stamp) ==
    [stamp |-> stamp,
     revenue |-> FloatV(SumTotal(SelectSeq(rows, LAMBDA r : TrendKey(r, time_grain) = stamp))),
     transactions |-> NUnique(SelectSeq(rows, LAMBDA r : TrendKey(r, time_grain) = stamp)),
     avg_sale |-> MeanTotal(SelectSeq(rows, LAMBDA r : TrendKey(r, time_grain) = stamp))]

compute_trend(df, time_grain) ==
    LET stamps == SortedStamps({TrendKey(df.rows[i], time_grain) : i \in DOMAIN df.rows}
                               \ {Null})
    IN  Frame([i \in DOMAIN stamps |-> TrendRow(df.rows, time_grain, stamps[i])])

\* value_counts(dropna=False): the distinct values of the column, the missing
\* value among them, each with the number of its rows, the larger counts first
ValueCounts(rows) ==
    LET values == {rows[i].payment_method : i \in DOMAIN rows}
        count(v) == Cardinality({i \in DOMAIN rows : rows[i].payment_method = v})
        first(v) == CHOOSE i \in DOMAIN rows :
                        /\ rows[i].payment_method = v
                        /\ \A j \in 1..(i - 1) : rows[j].payment_method # v
    IN  [k \in 1..Cardinality(values) |->
            LET v == CHOOSE x \in values :
                        Cardinality({y \in values :
                            \/ count(y) > count(x)
                            \/ count(y) = count(x) /\ first(y) < first(x)}) = k - 1
            IN  [payment_method |-> v, count |-> count(v)]]

\* no fillna: the missing value stays
KeepMissing(v) == v

\* pm["payment_method"].fillna("unknown")
FillUnknown(v) == IF IsNull(v) THEN StrV(T("unknown")) ELSE v

compute_payment_mix(df) ==
    LET counts == ValueCounts(df.rows)
    IN  Frame([k \in DOMAIN counts |-> [counts[k] EXCEPT !.payment_method = FillUnknown(@)]])

----------------------------------------------------------------------------
(* dashboard_core/config.py, queries.py and app.py: one run of the dashboard  *)
(* script.  An environment variable is unset, or set to a text.               *)

Unset == [set |-> FALSE, v |-> <<>>]

Var(chars) == [set |-> TRUE, v |-> chars]

\* os.environ.get(name, "")
Get(v) == IF v.set THEN v.v ELSE <<>>

\* the variables the configuration is read from, all set
FullEnv == [ATHENA_DATABASE |-> Var(T("t3")),
            ATHENA_S3_OUTPUT |-> Var(T("s3://t3/athena-results/"))]

\* the environments of a read surface: each variable unset, empty or set
Envs ==
    {[ATHENA_DATABASE |-> d, ATHENA_S3_OUTPUT |-> o] :
        d \in {Unset, Var(<<>>), FullEnv.ATHENA_DATABASE},
        o \in {Unset, Var(<<>>), FullEnv.ATHENA_S3_OUTPUT}}

\* config.load_config: no variable is required here
AppConfig(environ) ==
    [athena_database |-> Get(environ.ATHENA_DATABASE),
     athena_s3_output |-> Get(environ.ATHENA_S3_OUTPUT)]

\* a read that never looks at the output location
OutputLocationIgnored(cfg) == TRUE

\* load_transactions_joined: "if not cfg.athena_s3_output: raise" negated
OutputLocationSet(cfg) == cfg.athena_s3_output # <<>>

\* the except branch of the load block: st.error, st.exception, st.stop
ErrorBanner == <<"dash.error", "dash.exception", "dash.stop">>

\* raw = load_transactions_joined(cfg, start_dt, end_dt): the configuration
\* is checked, then the session is made and the query sent; the engine
\* answers or fails
Load ==
    /\ dpc = "idle"
    /\ \E cfg \in {AppConfig(env)} :
        IF ~OutputLocationSet(cfg)
        THEN /\ dpc' = "error"
             /\ log' = log \o ErrorBanner
             /\ UNCHANGED dash_df
        ELSE \E answer \in {lake, Raised} :
                IF answer.st = "ok"
                THEN /\ dpc' = "loaded"
                     /\ dash_df' = answer
                     /\ log' = log \o <<"dash.session", "dash.query">>
                ELSE /\ dpc' = "error"
                     /\ log' = log \o <<"dash.session", "dash.query">> \o ErrorBanner
                     /\ UNCHANGED dash_df
    /\ UNCHANGED <<kpis, trend, truck_perf, pm, cues, env>>
    /\ UNCHANGED <<cleanVars, lakeVars, reportVars, cacheVars>>

\* base_df = clean_base_df(raw)
CleanBase ==
    /\ dpc = "loaded"
    /\ dash_df' = clean_base_df(dash_df)
    /\ dpc' = "based"
    /\ UNCHANGED <<kpis, trend, truck_perf, pm, cues>>
    /\ UNCHANGED <<cleanVars, lakeVars, reportVars, envVars, cacheVars>>

\* the two sidebar selections, then apply_filters
ApplyFilters ==
    /\ dpc = "based"
    /\ \E payment_filter \in SUBSET {T("cash"), T("card")} :
       \E selected_trucks \in SUBSET AllTrucks(dash_df.rows, payment_filter) :
            dash_df' = apply_filters(dash_df, payment_filter, selected_trucks)
    /\ dpc' = "filtered"
    /\ log' = Append(log, "dash.filters")
    /\ UNCHANGED <<kpis, trend, truck_perf, pm, cues, env>>
    /\ UNCHANGED <<cleanVars, lakeVars, reportVars, cacheVars>>

\* if df.empty: st.warning(...); st.stop()
NoData ==
    /\ dpc = "filtered"
    /\ dash_df.rows = <<>>
    /\ dpc' = "stopped"
    /\ log' = log \o <<"dash.warning", "dash.stop">>
    /\ UNCHANGED <<dash_df, kpis, trend, truck_perf, pm, cues, env>>
    /\ UNCHANGED <<cleanVars, lakeVars, reportVars, cacheVars>>

\* a script that computes on whatever the filters left
AnyRows(rows) == TRUE

\* "if df.empty" negated
NotEmpty(rows) == rows # <<>>

\* the four KPIs; float(pd.NA) raises when no row has a payment method
Kpis ==
    /\ dpc = "filtered"
    /\ NotEmpty(dash_df.rows)
    /\ log' = Append(log, "dash.kpis")
    /\ \E share \in {CashShare(dash_df.rows)} :
        IF share[2] = 0
        THEN dpc' = "raised" /\ UNCHANGED kpis
        ELSE /\ dpc' = "kpis"
             /\ kpis' = [total_revenue |-> SumTotal(dash_df.rows),
                         n_transactions |-> NUnique(dash_df.rows),
                         avg_sale |-> MeanTotal(dash_df.rows),
                         cash_share |-> share]
    /\ UNCHANGED <<dash_df, trend, truck_perf, pm, cues, env>>
    /\ UNCHANGED <<cleanVars, lakeVars, reportVars, cacheVars>>

\* trend = compute_trend(df, time_grain=time_grain)
Trend ==
    /\ dpc = "kpis"
    /\ \E time_grain \in {"Daily", "Hourly"} : trend' = compute_trend(dash_df, time_grain)
    /\ dpc' = "trend"
    /\ log' = Append(log, "dash.trend")
    /\ UNCHANGED <<dash_df, kpis, truck_perf, pm, cues, env>>
    /\ UNCHANGED <<cleanVars, lakeVars, reportVars, cacheVars>>

\* truck_perf = compute_truck_perf(df); an exception ends the script run
TruckPerf ==
    /\ dpc = "trend"
    /\ \E perf \in {compute_truck_perf(dash_df)} :
        /\ truck_perf' = perf
        /\ dpc' = IF perf.st = "ok" THEN "perf" ELSE "raised"
    /\ log' = Append(log, "dash.truck_perf")
    /\ UNCHANGED <<dash_df, kpis, trend, pm, cues, env>>
    /\ UNCHANGED <<cleanVars, lakeVars, reportVars, cacheVars>>

\* pm = compute_payment_mix(df)
PaymentMix ==
    /\ dpc = "perf"
    /\ pm' = compute_payment_mix(dash_df)
    /\ dpc' = "mix"
    /\ log' = Append(log, "dash.payment_mix")
    /\ UNCHANGED <<dash_df, kpis, trend, truck_perf, cues, env>>
    /\ UNCHANGED <<cleanVars, lakeVars, reportVars, cacheVars>>

\* the highlights take .iloc[0] of the aggregate, which raises on an empty
\* one; then the charts, the table and the action cues
ActionCues ==
    /\ dpc = "mix"
    /\ log' = Append(log, "dash.cues")
    /\ IF truck_perf.rows = <<>>
       THEN dpc' = "raised" /\ UNCHANGED cues
       ELSE /\ \E lo \in {low_rev_threshold(truck_perf.rows)} :
               \E hi \in {high_cash_threshold(truck_perf.rows)} :
                    cues' = [low_rev_threshold |-> lo,
                             high_cash_threshold |-> hi,
                             low_rev |-> low_rev(truck_perf.rows, lo),
                             high_cash |-> high_cash(truck_perf.rows, hi)]
            /\ dpc' = "cues"
    /\ UNCHANGED <<dash_df, kpis, trend, truck_perf, pm, env>>
    /\ UNCHANGED <<cleanVars, lakeVars, reportVars, cacheVars>>

MaxPerfRows == 3

\* a row of the result of load_transactions_joined: the amount is a double in
\* pence, the day and hour are rebuilt from the partition, the two names come
\* from LEFT JOINs and are NULL when the dimension has no row for the key
LoadedRow ==
    [idx |-> 0, transaction_id |-> IntV(1),
     truck_name |-> StrV(T("Taco")), payment_method |-> StrV(T("cash")),
     total |-> FloatV(1000),
     day_dt |-> TsV(2024, 3, 5, 0, 0), hour_ts |-> TsV(2024, 3, 5, 14, 0)]

LoadedRows ==
    {[LoadedRow EXCEPT !.truck_name = n, !.payment_method = p] :
        n \in {StrV(T("Taco")), StrV(T("Wrap")), Null},
        p \in {StrV(T("cash")), StrV(T("card")), Null}}
    \cup {[LoadedRow EXCEPT !.total = FloatV(2500), !.hour_ts = TsV(2024, 3, 5, 9, 0)]}

\* the rows in order, each with its index label and its own transaction_id
DashFrame(rows) ==
    Frame([i \in 1..Len(rows) |-> [rows[i] EXCEPT !.idx = i - 1, !.transaction_id = IntV(i)]])

LoadedFrames ==
    {DashFrame(rows) : rows \in UNION {[1..n -> LoadedRows] : n \in 0..MaxPerfRows}}

\* the dashboard's environments: the output location set, unset or empty
DashEnvs == {e \in Envs : e.ATHENA_DATABASE = FullEnv.ATHENA_DATABASE}

InitDash ==
    /\ CleanIdle
    /\ LakeIdle
    /\ ReportIdle
    /\ DashIdle
    /\ env \in DashEnvs
    /\ log = <<>>
    /\ now = 0
    /\ lake \in LoadedFrames
    /\ cache = [c \in {} |-> <<>>]
    /\ served = <<>>

NextDash ==
    \/ Load
    \/ CleanBase
    \/ ApplyFilters
    \/ NoData
    \/ Kpis
    \/ Trend
    \/ TruckPerf
    \/ PaymentMix
    \/ ActionCues

SpecDash == InitDash /\ [][NextDash]_vars

\* compute_truck_perf as a function: any non-empty frame whose columns have
\* the types clean_base_df gives them
PerfFrames ==
    {DashFrame(rows) :
        rows \in UNION {[1..n -> {CleanBaseCols(r) : r \in LoadedRows}] : n \in 1..MaxPerfRows}}

InitPerf ==
    /\ CleanIdle
    /\ LakeIdle
    /\ ReportIdle
    /\ EnvIdle
    /\ CacheIdle
    /\ DashRest
    /\ dpc = "trend"
    /\ dash_df \in PerfFrames
    /\ truck_perf = Raised

NextPerf == TruckPerf \/ PaymentMix \/ ActionCues

SpecPerf == InitPerf /\ [][NextPerf]_vars

MaxTrucks == 4

\* truck-level revenues, in tenths of a pound, and cash shares
CueRevenues == {100, 200, 300, 400}

CueShares == {<<0, 1>>, <<2, 3>>}

CueRow(i, revenue, share) ==
    [truck_name |-> StrV(<<UpperChars[i]>>), revenue |-> FloatV(revenue),
     transactions |-> 2, avg_sale |-> <<revenue, 20>>, cash_share |-> share]

\* truck-performance aggregates: one row per truck, in the order of the names
PerfTables ==
    {Frame([i \in DOMAIN f |-> CueRow(i, f[i][1], f[i][2])]) :
        f \in UNION {[1..n -> CueRevenues \X CueShares] : n \in 1..MaxTrucks}}

InitCues ==
    /\ CleanIdle
    /\ LakeIdle
    /\ ReportIdle
    /\ EnvIdle
    /\ CacheIdle
    /\ DashRest
    /\ dpc = "mix"
    /\ dash_df = Raised
    /\ truck_perf \in PerfTables

NextCues == ActionCues

SpecCues == InitCues /\ [][NextCues]_vars

----------------------------------------------------------------------------
(* Claims about the truck-performance aggregate and the action cues *)

PerfDone == dpc \in {"perf", "mix", "cues"} /\ truck_perf.st = "ok"

SumRevenue(rows) ==
    LET S[i \in 0..Len(rows)] == IF i = 0 THEN 0 ELSE S[i - 1] + rows[i].revenue.n
    IN  S[Len(rows)]

\* C7: for every non-empty input row set given to compute_truck_perf, rows
\* with a missing truck_name included, the revenue column of the aggregate
\* sums to the sum of total over the input rows.
C7_RevenueReconciles ==
    PerfDone /\ dash_df.rows # <<>>
        => SumRevenue(truck_perf.rows) = SumTotal(dash_df.rows)

\* the transactions of the input that belong to the truck of an aggregate row
GroupOf(g) == {i \in DOMAIN dash_df.rows : dash_df.rows[i].truck_name = g.truck_name}

PaidCash(i) == dash_df.rows[i].payment_method = StrV(T("cash"))

\* C8: for every truck group of the aggregate, transactions with a missing
\* payment method included, cash_share is the number of the group's
\* transactions paid in cash over the number of its transactions: it lies in
\* [0, 1], is 1 when all are cash and 0 when none is.
C8_CashShareIsCountFraction ==
    PerfDone =>
        \A k \in DOMAIN truck_perf.rows :
            LET g == truck_perf.rows[k]
                cash == Cardinality({i \in GroupOf(g) : PaidCash(i)})
            IN  /\ g.cash_share[2] > 0
                /\ RatEq(g.cash_share, <<cash, Cardinality(GroupOf(g))>>)
                /\ RatLeq(<<0, 1>>, g.cash_share) /\ RatLeq(g.cash_share, <<1, 1>>)
                /\ (cash = Cardinality(GroupOf(g)) => RatEq(g.cash_share, <<1, 1>>))
                /\ (cash = 0 => RatEq(g.cash_share, <<0, 1>>))

\* v is the k-th smallest (k from 0) of the column: fewer than k + 1 values
\* lie below it and at least k + 1 do not lie above it
IsKth(col, k, v) ==
    /\ \E i \in DOMAIN col : RatEq(col[i], v)
    /\ Cardinality({i \in DOMAIN col : ~RatLeq(v, col[i])}) <= k
    /\ Cardinality({i \in DOMAIN col : RatLeq(col[i], v)}) >= k + 1

\* t is the percentile quarters/4 of the column by linear interpolation: with
\* h = quarters * (n - 1) / 4, t lies the fraction h - floor(h) of the way
\* from the floor(h)-th to the ceil(h)-th smallest value
IsPercentile(col, quarters, t) ==
    LET h4 == quarters * (Len(col) - 1)
        lo == h4 \div 4
        r == h4 % 4
    IN  \E i, j \in DOMAIN col :
            /\ IsKth(col, lo, col[i])
            /\ IsKth(col, IF r = 0 THEN lo ELSE lo + 1, col[j])
            /\ t[2] > 0
            /\ 4 * t[1] * col[i][2] * col[j][2]
                 = t[2] * ((4 - r) * col[i][1] * col[j][2] + r * col[j][1] * col[i][2])

Revenues == {truck_perf.rows[i].revenue.n : i \in DOMAIN truck_perf.rows}

\* the revenues are 10, 20, 30 and 40 pounds, one truck each
ExampleRevenues == Len(truck_perf.rows) = 4 /\ Revenues = {100, 200, 300, 400}

\* C9: the underperforming threshold is the 25th percentile of the truck
\* revenues by linear interpolation and a truck is flagged underperforming
\* iff its revenue is at or below it; for revenues 10, 20, 30, 40 the
\* threshold is 17.5 and only the truck with revenue 10 is flagged; a truck is
\* flagged high-cash-reliance iff its cash_share is at or above the 75th
\* percentile of cash_share.
C9_PercentileFlags ==
    dpc = "cues" =>
        LET rows == truck_perf.rows
        IN  /\ IsPercentile(RevenueCol(rows), 1, cues.low_rev_threshold)
            /\ IsPercentile(CashShareCol(rows), 3, cues.high_cash_threshold)
            /\ \A i \in DOMAIN rows :
                /\ rows[i].truck_name.s \in cues.low_rev
                     <=> RatLeq(<<rows[i].revenue.n, 10>>, cues.low_rev_threshold)
                /\ rows[i].truck_name.s \in cues.high_cash
                     <=> RatLeq(cues.high_cash_threshold, rows[i].cash_share)
            /\ ExampleRevenues =>
                /\ RatEq(cues.low_rev_threshold, <<175, 10>>)
                /\ cues.low_rev
                     = {rows[i].truck_name.s : i \in {j \in DOMAIN rows : rows[j].revenue.n = 100}}
                /\ Cardinality(cues.low_rev) = 1

C9_Witness ==
    /\ dpc = "cues"
    /\ ExampleRevenues
    /\ RatEq(cues.low_rev_threshold, <<175, 10>>)
    /\ Cardinality(cues.low_rev) = 1
    /\ RatEq(cues.high_cash_threshold, <<1, 6>>)
    /\ Cardinality(cues.high_cash) = 1

----------------------------------------------------------------------------
(* pipeline/daily_report.py                                                   *)
(*                                                                            *)
(* A number of the report is [nan, num, den]: NaN, or the ratio num / den     *)
(* with den > 0.  Athena's double columns arrive as float64, where SQL NULL   *)
(* is NaN; its bigint columns arrive as integers.                             *)

NaN == [nan |-> TRUE, num |-> 0, den |-> 1]

Num(num, den) == [nan |-> FALSE, num |-> num, den |-> den]

\* x or 0.0 on a float: 0.0 is false, every other float, NaN too, is true
OrZero(x) == IF ~x.nan /\ x.num = 0 THEN Num(0, 1) ELSE x

\* round(x / 100.0, 2) of an amount in pence: the pounds with two decimals,
\* that is the nearest whole number of pence (a tie goes to the even one);
\* NaN stays NaN
RoundPence(x) ==
    IF x.nan THEN NaN
    ELSE LET q == x.num \div x.den
             r2 == 2 * (x.num % x.den)
         IN  Num(IF r2 > x.den \/ (r2 = x.den /\ q % 2 = 1) THEN q + 1 ELSE q, 100)

gbp_from_pence(pence) == RoundPence(OrZero(pence))

\* the digits in groups of three: format(i, ",")
RECURSIVE Grouped(_)
Grouped(digits) ==
    IF Len(digits) <= 3 THEN digits
    ELSE Grouped(SubSeq(digits, 1, Len(digits) - 3)) \o <<",">>
            \o SubSeq(digits, Len(digits) - 2, Len(digits))

\* f"{value:,}" of a count
fmt_int(value) == Grouped(NatDigits(value))

\* f"£{value:,.2f}" of pounds held with two decimals (den = 100)
fmt_gbp(value) ==
    IF value.nan THEN <<"£">> \o T("nan")
    ELSE <<"£">> \o Grouped(NatDigits(value.num \div 100)) \o <<".">>
            \o <<DigitChars[((value.num % 100) \div 10) + 1], DigitChars[(value.num % 10) + 1]>>

\* html.escape(s): & < > " ' become entities
EscapeChar(c) ==
    CASE c = "&" -> <<"&", "a", "m", "p", ";">>
      [] c = "<" -> <<"&", "l", "t", ";">>
      [] c = ">" -> <<"&", "g", "t", ";">>
      [] c = "\"" -> <<"&", "q", "u", "o", "t", ";">>
      [] c = "'" -> <<"&", "#", "x", "2", "7", ";">>
      [] OTHER -> <<c>>

\* html.escape(s, quote=False): the two quote characters stay as they are
RECURSIVE EscapeNoQuotes(_)
EscapeNoQuotes(chars) ==
    IF chars = <<>> THEN <<>>
    ELSE (IF Head(chars) \in {"\"", "'"} THEN <<Head(chars)>> ELSE EscapeChar(Head(chars)))
            \o EscapeNoQuotes(Tail(chars))

RECURSIVE Escape(_)
Escape(chars) ==
    IF chars = <<>> THEN <<>> ELSE EscapeChar(Head(chars)) \o Escape(Tail(chars))

\* The transactions of the report day as the three queries see them: the
\* WHERE clause has kept the positive, non-null amounts (pence); truck_name
\* and payment_method are NULL where the LEFT JOIN found no dimension row.
SumPence(rows) ==
    LET S[i \in 0..Len(rows)] == IF i = 0 THEN 0 ELSE S[i - 1] + rows[i].total
    IN  S[Len(rows)]

\* overall_sql: an aggregate without GROUP BY answers with one row; over no
\* transaction COUNT is 0 and SUM and AVG are NULL
overall_sql(rows) ==
    <<[n_transactions |-> Len(rows),
       total_pence |-> IF rows = <<>> THEN NaN ELSE Num(SumPence(rows), 1),
       avg_customer_spend_pence |->
            IF rows = <<>> THEN NaN ELSE Num(SumPence(rows), Len(rows))]>>

\* COALESCE(tr.truck_name, 'unknown')
TruckLabel(r) == IF IsNull(r.truck_name) THEN T("unknown") ELSE r.truck_name.s

\* COALESCE(LOWER(TRIM(pm.payment_method)), 'unknown')
MethodLabel(r) ==
    IF IsNull(r.payment_method) THEN T("unknown") ELSE Lower(Strip(r.payment_method.s))

\* by_truck_sql: one row per truck label, in no particular order
by_truck_sql(rows) ==
    {[truck_name |-> name,
      n_transactions |-> Len(SelectSeq(rows, LAMBDA r : TruckLabel(r) = name)),
      total_pence |-> Num(SumPence(SelectSeq(rows, LAMBDA r : TruckLabel(r) = name)), 1),
      avg_customer_spend_pence |->
            Num(SumPence(SelectSeq(rows, LAMBDA r : TruckLabel(r) = name)),
                Len(SelectSeq(rows, LAMBDA r : TruckLabel(r) = name)))] :
        name \in {TruckLabel(rows[i]) : i \in DOMAIN rows}}

\* pm_sql: one row per payment-method label, held as label -> n_transactions
pm_sql(rows) ==
    [method \in {MethodLabel(rows[i]) : i \in DOMAIN rows} |->
        Len(SelectSeq(rows, LAMBDA r : MethodLabel(r) = method))]

\* the ways a query can order its rows
Orderings(S) ==
    {f \in [1..Cardinality(S) -> S] : \A i, j \in 1..Cardinality(S) : f[i] = f[j] => i = j}

\* (by_truck_df["total_pence"] / 100.0).round(2) and the like
WithGbp(r) ==
    [truck_name |-> r.truck_name,
     n_transactions |-> r.n_transactions,
     total_pence |-> r.total_pence,
     avg_customer_spend_pence |-> r.avg_customer_spend_pence,
     total_gbp |-> RoundPence(r.total_pence),
     avg_customer_spend_gbp |-> RoundPence(r.avg_customer_spend_pence)]

\* row a comes before row b under
\* sort_values(["total_gbp", "n_transactions"], ascending=[False, False])
Before(a, b) ==
    \/ a.total_gbp.num > b.total_gbp.num
    \/ a.total_gbp.num = b.total_gbp.num /\ a.n_transactions > b.n_transactions

SameRank(a, b) ==
    a.total_gbp.num = b.total_gbp.num /\ a.n_transactions = b.n_transactions

\* the sort keeps rows of equal keys in the order they had
SortByTruck(rows) ==
    [k \in DOMAIN rows |->
        rows[CHOOSE i \in DOMAIN rows :
                Cardinality({j \in DOMAIN rows :
                    Before(rows[j], rows[i]) \/ (SameRank(rows[j], rows[i]) /\ j < i)}) = k - 1]]

NoItem == [some |-> FALSE, truck_name |-> <<>>, total_gbp |-> Num(0, 100), n_transactions |-> 0]

Item(r) ==
    [some |-> TRUE, truck_name |-> r.truck_name, total_gbp |-> r.total_gbp,
     n_transactions |-> r.n_transactions]

\* the first row of the frame as it is, sorted by revenue
TopByTxUnsorted(rows) == rows[1]

\* by_truck_df.sort_values("n_transactions", ascending=False).iloc[0]
TopByTx(rows) ==
    rows[CHOOSE i \in DOMAIN rows :
            /\ \A j \in DOMAIN rows : rows[j].n_transactions <= rows[i].n_transactions
            /\ \A j \in 1..(i - 1) : rows[j].n_transactions < rows[i].n_transactions]

\* pm_counts.get(method, 0)
PmCount(pm_df, method) == IF method \in DOMAIN pm_df THEN pm_df[method] ELSE 0

\* build_metrics, from the answers q of the three queries
build_metrics(q) ==
    LET n_tx == IF q.overall_df # <<>> THEN q.overall_df[1].n_transactions ELSE 0
        total_pence == OrZero(IF q.overall_df # <<>>
                              THEN q.overall_df[1].total_pence ELSE Num(0, 1))
        avg_customer_spend_pence ==
            OrZero(IF q.overall_df # <<>>
                   THEN q.overall_df[1].avg_customer_spend_pence ELSE Num(0, 1))
        by_truck_df ==
            SortByTruck([i \in DOMAIN q.by_truck_df |-> WithGbp(q.by_truck_df[i])])
        denom == IF n_tx > 1 THEN n_tx ELSE 1
    IN  [st |-> "ok",
         overall |-> [total_transaction_value_gbp |-> gbp_from_pence(total_pence),
                      n_transactions |-> n_tx,
                      avg_customer_spend_gbp |-> gbp_from_pence(avg_customer_spend_pence)],
         by_truck_df |-> by_truck_df,
         payment_mix |-> [cash_n |-> PmCount(q.pm_df, T("cash")),
                          card_n |-> PmCount(q.pm_df, T("card")),
                          cash_share |-> <<PmCount(q.pm_df, T("cash")), denom>>,
                          card_share |-> <<PmCount(q.pm_df, T("card")), denom>>],
         highlights |->
            IF by_truck_df = <<>>
            THEN [top_truck_by_revenue |-> NoItem,
                  lowest_truck_by_revenue |-> NoItem,
                  top_truck_by_transactions |-> NoItem]
            ELSE [top_truck_by_revenue |-> Item(by_truck_df[1]),
                  lowest_truck_by_revenue |-> Item(by_truck_df[Len(by_truck_df)]),
                  top_truck_by_transactions |-> Item(TopByTx(by_truck_df))]]

\* the by-truck section: the notice, or one row of escaped cells per truck
df_to_html_table(by_truck_df) ==
    IF by_truck_df = <<>>
    THEN [notice |-> TRUE, rows |-> <<>>]
    ELSE [notice |-> FALSE,
          rows |-> [i \in DOMAIN by_truck_df |->
                        <<Escape(by_truck_df[i].truck_name),
                          Escape(fmt_int(by_truck_df[i].n_transactions)),
                          Escape(fmt_gbp(by_truck_df[i].total_gbp)),
                          Escape(fmt_gbp(by_truck_df[i].avg_customer_spend_gbp))>>]]

\* the text of a highlight line after its label
highlight_line(item) ==
    IF ~item.some THEN T("n/a")
    ELSE Escape(item.truck_name) \o <<" ", "(">> \o fmt_gbp(item.total_gbp)
            \o <<",", " ">> \o fmt_int(item.n_transactions) \o <<" ", "t", "x", ")">>

\* f"{share*100:.1f}%": the percentage with one decimal
FmtPct(share) ==
    LET q == (1000 * share[1]) \div share[2]
        r2 == 2 * ((1000 * share[1]) % share[2])
        t == IF r2 > share[2] \/ (r2 = share[2] /\ q % 2 = 1) THEN q + 1 ELSE q
    IN  NatDigits(t \div 10) \o <<".">> \o <<DigitChars[(t % 10) + 1]>> \o <<"%">>

\* render_html_report: the parts of the document that depend on the metrics
render_html_report(m) ==
    [total_gbp |-> fmt_gbp(m.overall.total_transaction_value_gbp),
     n_tx |-> fmt_int(m.overall.n_transactions),
     avg_gbp |-> fmt_gbp(m.overall.avg_customer_spend_gbp),
     by_truck_table |-> df_to_html_table(m.by_truck_df),
     cash |-> fmt_int(m.payment_mix.cash_n) \o <<" ", "(">>
                \o FmtPct(m.payment_mix.cash_share) \o <<")">>,
     card |-> fmt_int(m.payment_mix.card_n) \o <<" ", "(">>
                \o FmtPct(m.payment_mix.card_share) \o <<")">>,
     highlights |-> <<highlight_line(m.highlights.top_truck_by_revenue),
                      highlight_line(m.highlights.lowest_truck_by_revenue),
                      highlight_line(m.highlights.top_truck_by_transactions)>>]

----------------------------------------------------------------------------
(* One invocation of the report for a day *)

MaxDayRows == 2

\* amounts are whole pounds in pence, so that no average of the model lies
\* half-way between two pence
DayRows ==
    {[truck_name |-> n, payment_method |-> p, total |-> 100] :
        n \in {StrV(T("Taco")), StrV(T("Wrap")), Null},
        p \in {StrV(T("cash")), StrV(T(" Card ")), Null}}
    \cup {[truck_name |-> StrV(T("Taco")), payment_method |-> StrV(T("cash")), total |-> 300],
          [truck_name |-> StrV(T("Wrap")), payment_method |-> StrV(T("card")), total |-> 300]}
    \cup {[truck_name |-> StrV(T(n)), payment_method |-> StrV(T("cash")), total |-> 100] :
            n \in {"<script>alert(1)</script>", "A&B's \"x\""}}

\* a longer day of two trucks, where one truck can take more money from fewer
\* customers than the other
BusyRows ==
    {[truck_name |-> StrV(T(n)), payment_method |-> StrV(T("cash")), total |-> t] :
        n \in {"Taco", "Wrap"}, t \in {100, 300}}

Days ==
    UNION {[1..n -> DayRows] : n \in 0..MaxDayRows} \cup [1..(MaxDayRows + 1) -> BusyRows]

\* what Athena answers for a day; the code also provides for an overall
\* answer without any row
Answers(day) ==
    {[day |-> day, overall_df |-> o, by_truck_df |-> b, pm_df |-> pm_sql(day)] :
        o \in {overall_sql(day)} \cup (IF day = <<>> THEN {<<>>} ELSE {}),
        b \in Orderings(by_truck_sql(day))}

\* daily_report.load_config: the database and the output location are
\* required, in this order
load_config(environ) ==
    IF Get(environ.ATHENA_DATABASE) = <<>>
    THEN [st |-> "raise", missing |-> "ATHENA_DATABASE"]
    ELSE IF Get(environ.ATHENA_S3_OUTPUT) = <<>>
    THEN [st |-> "raise", missing |-> "ATHENA_S3_OUTPUT"]
    ELSE [st |-> "ok", database |-> Get(environ.ATHENA_DATABASE),
          s3_output |-> Get(environ.ATHENA_S3_OUTPUT)]

\* the invocation starts with every variable set or not; the answers Athena
\* would give for the report day are those of the lake
InitReport ==
    /\ CleanIdle
    /\ LakeIdle
    /\ DashIdle
    /\ CacheIdle
    /\ env \in Envs
    /\ log = <<>>
    /\ rpc = "idle"
    /\ athena \in UNION {Answers(day) : day \in Days}
    /\ metrics = NoMetrics
    /\ html_str = <<>>

\* cfg = load_config(): an exception ends the invocation
LoadConfig ==
    /\ rpc = "idle"
    /\ rpc' = IF load_config(env).st = "ok" THEN "configured" ELSE "raised"
    /\ log' = Append(log, "report.load_config")
    /\ UNCHANGED <<athena, metrics, html_str, env>>
    /\ UNCHANGED <<cleanVars, lakeVars, dashVars, cacheVars>>

\* metrics = build_metrics(cfg, report_day): the three queries are sent and
\* the metrics built from their answers
BuildMetrics ==
    /\ rpc = "configured"
    /\ metrics' = build_metrics(athena)
    /\ rpc' = "built"
    /\ log' = log \o <<"report.query", "report.query", "report.query">>
    /\ UNCHANGED <<athena, html_str, env>>
    /\ UNCHANGED <<cleanVars, lakeVars, dashVars, cacheVars>>

\* html_str = render_html_report(metrics)
RenderReport ==
    /\ rpc = "built"
    /\ html_str' = render_html_report(metrics)
    /\ rpc' = "rendered"
    /\ UNCHANGED <<athena, metrics>>
    /\ UNCHANGED <<cleanVars, lakeVars, dashVars, envVars, cacheVars>>

NextReport == LoadConfig \/ BuildMetrics \/ RenderReport

SpecReport == InitReport /\ [][NextReport]_vars

----------------------------------------------------------------------------
(* Claim about the report of a day without transactions *)

ZeroRowDay == athena.day = <<>> /\ athena.by_truck_df = <<>> /\ DOMAIN athena.pm_df = {}

IsZero(x) == ~x.nan /\ x.num = 0

\* C10: given zero rows for the target day (the overall query answering with
\* no row, or with one row of count 0 and NULL sum and average), the report is
\* built and rendered without raising, the overall total value, transaction
\* count and average spend are zero, the by-truck section is the 'No
\* transactions recorded for this date.' notice, the cash and card shares are
\* 0 and the three highlights are absent, rendered 'n/a'.
C10_ZeroRowDayDefaults ==
    rpc = "rendered" /\ ZeroRowDay =>
        /\ metrics.st = "ok"
        /\ IsZero(metrics.overall.total_transaction_value_gbp)
        /\ metrics.overall.n_transactions = 0
        /\ IsZero(metrics.overall.avg_customer_spend_gbp)
        /\ html_str.by_truck_table.notice
        /\ metrics.payment_mix.cash_share[1] = 0
        /\ metrics.payment_mix.card_share[1] = 0
        /\ \A k \in 1..3 : html_str.highlights[k] = T("n/a")

----------------------------------------------------------------------------
(* Claim about the truck names of the rendered report *)

Rendered == rpc = "rendered"

Entities ==
    {<<"&", "a", "m", "p", ";">>, <<"&", "l", "t", ";">>, <<"&", "g", "t", ";">>,
     <<"&", "q", "u", "o", "t", ";">>, <<"&", "#", "x", "2", "7", ";">>}

EntityAt(chars, i) ==
    \E e \in Entities : i + Len(e) - 1 <= Len(chars) /\ SubSeq(chars, i, i + Len(e) - 1) = e

\* no character of the text is markup: no <, >, " or ', and every & opens an entity
NoRawMarkup(chars) ==
    \A i \in DOMAIN chars :
        /\ chars[i] \notin {"<", ">", "\"", "'"}
        /\ chars[i] = "&" => EntityAt(chars, i)

\* the text a browser shows for escaped text: every entity read back as its character
RECURSIVE Shown(_)
Shown(chars) ==
    IF chars = <<>> THEN <<>>
    ELSE IF EntityAt(chars, 1)
         THEN LET e == CHOOSE x \in Entities :
                        Len(x) <= Len(chars) /\ SubSeq(chars, 1, Len(x)) = x
                  c == CASE e[2] = "a" -> "&" [] e[2] = "l" -> "<" [] e[2] = "g" -> ">"
                         [] e[2] = "q" -> "\"" [] OTHER -> "'"
              IN  <<c>> \o Shown(SubSeq(chars, Len(e) + 1, Len(chars)))
         ELSE <<Head(chars)>> \o Shown(Tail(chars))

IsPrefix(a, b) == Len(a) <= Len(b) /\ SubSeq(b, 1, Len(a)) = a

HighlightItems ==
    <<metrics.highlights.top_truck_by_revenue,
      metrics.highlights.lowest_truck_by_revenue,
      metrics.highlights.top_truck_by_transactions>>

\* C11: every place where the rendered report carries a truck name, the cell
\* of its by-truck row and each of the three highlight lines, carries the
\* name in escaped form only: the text there holds no raw markup character
\* and reads back as the name.
C11_TruckNamesEscaped ==
    Rendered =>
        /\ \A i \in DOMAIN metrics.by_truck_df :
            /\ NoRawMarkup(html_str.by_truck_table.rows[i][1])
            /\ Shown(html_str.by_truck_table.rows[i][1]) = metrics.by_truck_df[i].truck_name
        /\ \A k \in 1..3 :
            HighlightItems[k].some =>
                /\ NoRawMarkup(html_str.highlights[k])
                /\ IsPrefix(HighlightItems[k].truck_name \o <<" ", "(">>,
                            Shown(html_str.highlights[k]))

EscapedScript ==
    <<"&", "l", "t", ";", "s", "c", "r", "i", "p", "t", "&", "g", "t", ";",
      "a", "l", "e", "r", "t", "(", "1", ")",
      "&", "l", "t", ";", "/", "s", "c", "r", "i", "p", "t", "&", "g", "t", ";">>

C11_Witness ==
    /\ Rendered
    /\ \E i \in DOMAIN metrics.by_truck_df :
        /\ metrics.by_truck_df[i].truck_name = T("<script>alert(1)</script>")
        /\ html_str.by_truck_table.rows[i][1] = EscapedScript
    /\ \E j \in DOMAIN metrics.by_truck_df :
        metrics.by_truck_df[j].truck_name = T("A&B's \"x\"")
    /\ IsPrefix(EscapedScript, html_str.highlights[1])

----------------------------------------------------------------------------
(* Claim about the highlights of the report *)

Built == rpc \in {"built", "rendered"} /\ metrics.st = "ok"

\* item names a row of the by-truck frame and carries its figures
NamesRow(item, r) ==
    /\ item.some
    /\ item.truck_name = r.truck_name
    /\ item.total_gbp = r.total_gbp
    /\ item.n_transactions = r.n_transactions

\* C15: whenever the by-truck result for the day is non-empty,
\* top_truck_by_revenue names a truck whose revenue is >= every other
\* truck's, lowest_truck_by_revenue names a truck whose revenue is <= every
\* other truck's, and top_truck_by_transactions names a truck whose
\* transaction count is >= every other truck's; the three are chosen
\* independently, and all name the same truck when there is a single truck.
C15_HighlightsAreExtremes ==
    (Built /\ metrics.by_truck_df # <<>>) =>
        LET rows == metrics.by_truck_df
            h == metrics.highlights
        IN  /\ \E i \in DOMAIN rows :
                    /\ NamesRow(h.top_truck_by_revenue, rows[i])
                    /\ \A j \in DOMAIN rows : rows[j].total_gbp.num <= rows[i].total_gbp.num
            /\ \E i \in DOMAIN rows :
                    /\ NamesRow(h.lowest_truck_by_revenue, rows[i])
                    /\ \A j \in DOMAIN rows : rows[j].total_gbp.num >= rows[i].total_gbp.num
            /\ \E i \in DOMAIN rows :
                    /\ NamesRow(h.top_truck_by_transactions, rows[i])
                    /\ \A j \in DOMAIN rows :
                            rows[j].n_transactions <= rows[i].n_transactions
            /\ Len(rows) = 1 =>
                    /\ h.top_truck_by_revenue = h.lowest_truck_by_revenue
                    /\ h.top_truck_by_revenue = h.top_truck_by_transactions

\* two trucks: one took the most money, the other served the most customers
C15_Witness ==
    /\ Built
    /\ Len(metrics.by_truck_df) = 2
    /\ metrics.highlights.top_truck_by_revenue.truck_name = T("Taco")
    /\ metrics.highlights.top_truck_by_revenue.n_transactions = 1
    /\ metrics.highlights.lowest_truck_by_revenue.truck_name = T("Wrap")
    /\ metrics.highlights.top_truck_by_transactions.truck_name = T("Wrap")
    /\ metrics.highlights.top_truck_by_transactions.n_transactions = 2

----------------------------------------------------------------------------
(* Claim about the underperforming list of the action cues *)

\* the trucks of the aggregate whose revenue no other truck's is below
MinRevenueTrucks ==
    {truck_perf.rows[i].truck_name.s : i \in {j \in DOMAIN truck_perf.rows :
        \A k \in DOMAIN truck_perf.rows :
            truck_perf.rows[j].revenue.n <= truck_perf.rows[k].revenue.n}}

\* if low_rev.empty: st.write("None identified.")
LowRevNoneIdentified == dpc = "cues" /\ cues.low_rev = {}

\* C20: in the action cues, whenever the truck-performance aggregate is
\* non-empty, every truck whose revenue equals the minimum revenue is flagged
\* underperforming, so the underperforming list is never empty and its 'None
\* identified.' branch is not taken; a single truck is always flagged.
C20_MinimumRevenueFlagged ==
    (dpc = "cues" /\ truck_perf.st = "ok" /\ truck_perf.rows # <<>>) =>
        /\ MinRevenueTrucks \subseteq cues.low_rev
        /\ cues.low_rev # {}
        /\ ~LowRevNoneIdentified
        /\ Len(truck_perf.rows) = 1 => cues.low_rev = {truck_perf.rows[1].truck_name.s}

\* three trucks, two of them sharing the lowest revenue: both are flagged
C20_Witness ==
    /\ dpc = "cues"
    /\ Len(truck_perf.rows) = 3
    /\ Cardinality(MinRevenueTrucks) = 2
    /\ cues.low_rev = MinRevenueTrucks

----------------------------------------------------------------------------
(* Claims about successive pipeline runs *)

\* a step in which a run writes the lake
RunWrites == nruns' = nruns + 1 /\ lpc' = "written"

\* C18: across pipeline runs, writing a leaf replaces the leaf's file as a
\* whole: after a run, each leaf the run wrote holds exactly the run's
\* transactions of that hour bucket, none that an earlier run had written
\* there and that is not in the run's input, and every leaf the run did not
\* write is as it was; an upload likewise replaces the one object of its key.
C18_LeafReplacedAsAWhole ==
    [][/\ RunWrites =>
            /\ Leaves(disk') = Leaves(disk) \cup Leaves(written')
            /\ \A q \in Leaves(written') : disk'[q] = InBucket(transactions'.rows, q)
            /\ \A q \in Leaves(disk) \ Leaves(written') : disk'[q] = disk[q]
       /\ bucket' # bucket =>
            \E f \in DOMAIN disk :
                /\ DOMAIN bucket' = DOMAIN bucket \cup {S3Key(T("input"), f)}
                /\ bucket'[S3Key(T("input"), f)] = disk[f]
                /\ \A k \in DOMAIN bucket \ {S3Key(T("input"), f)} : bucket'[k] = bucket[k]
      ]_vars

\* the second run rewrote a leaf the first run had uploaded with a
\* transaction that is not in the second run's input, and did not write
\* another leaf of the first run
C18_Witness ==
    /\ nruns = 2
    /\ lpc = "written"
    /\ \E q \in Leaves(written) :
            /\ S3Key(T("input"), q) \in DOMAIN bucket
            /\ \E k \in 1..Len(bucket[S3Key(T("input"), q)]) :
                    ~Holds(disk[q], bucket[S3Key(T("input"), q)][k])
            /\ disk[q] = InBucket(transactions.rows, q)
    /\ \E q \in Leaves(disk) \ Leaves(written) :
            /\ S3Key(T("input"), q) \in DOMAIN bucket
            /\ disk[q] = bucket[S3Key(T("input"), q)]

\* the fact rows of the leaves of a directory
FactRows(dir) == UNION {{dir[q][k] : k \in 1..Len(dir[q])} : q \in Leaves(dir)}

\* the rows of a dimension file that t LEFT JOIN dim ON t.key = dim.key pairs
\* with a fact row; SQL equality never holds of NULL
TruckMatches(dir, r) ==
    {k \in 1..Len(dir[TruckFile]) :
        ~IsNull(r.truck_id) /\ dir[TruckFile][k].truck_id = r.truck_id}

PaymentMatches(dir, r) ==
    {k \in 1..Len(dir[PaymentFile]) :
        ~IsNull(r.payment_method_id)
        /\ dir[PaymentFile][k].payment_method_id = r.payment_method_id}

\* the number of result rows the two LEFT JOINs give for a fact row
JoinedRows(dir, r) ==
    (IF TruckMatches(dir, r) = {} THEN 1 ELSE Cardinality(TruckMatches(dir, r)))
    * (IF PaymentMatches(dir, r) = {} THEN 1 ELSE Cardinality(PaymentMatches(dir, r)))

\* C19: within a single pipeline run, every non-null truck_id and every
\* non-null payment_method_id of the fact partitions the run wrote is the key
\* of exactly one row of the truck dimension, respectively the payment-method
\* dimension, written by the same run, so the reader's joins on these keys
\* give exactly one row for each fact row of the run.
C19_DimensionsCoverFactKeys ==
    lpc = "written" =>
        /\ disk[TruckFile] = written[TruckFile]
        /\ disk[PaymentFile] = written[PaymentFile]
        /\ \A r \in FactRows(written) :
            /\ ~IsNull(r.truck_id) => Cardinality(TruckMatches(disk, r)) = 1
            /\ ~IsNull(r.payment_method_id) => Cardinality(PaymentMatches(disk, r)) = 1
            /\ JoinedRows(disk, r) = 1

\* a run wrote three facts: two of the same truck, two of the same payment
\* method; each dimension has its two rows
C19_Witness ==
    /\ lpc = "written"
    /\ Cardinality(FactRows(written)) = 3
    /\ Cardinality({r \in FactRows(written) : r.truck_id = IntV(1)}) = 2
    /\ Cardinality({r \in FactRows(written) : r.payment_method_id = IntV(2)}) = 2
    /\ Len(written[TruckFile]) = 2
    /\ Len(written[PaymentFile]) = 2

----------------------------------------------------------------------------
(* The two dimension builders, applied to a cleaned transaction set *)

MaxDimRows == 2

\* rows of the operational store in which a key comes with more than one
\* name, and without key
DimRows ==
    {[BaseRow EXCEPT !.truck_id = t, !.truck_name = StrV(T(n)),
                     !.truck_description = StrV(T(n)),
                     !.payment_method_id = p, !.payment_method = StrV(T(m))] :
        t \in {IntV(1), IntV(2), Null}, n \in {"Taco", " Wrap"},
        p \in {IntV(1), Null}, m \in {"cash", "Card "}}

\* the rows in order, each a transaction of its own
Fetched(rows) ==
    DataFrame([i \in 1..Len(rows) |-> [rows[i] EXCEPT !.transaction_id = IntV(i)]])

CleanedSets ==
    {clean_transactions(Fetched(rows)) :
        rows \in UNION {[1..n -> DimRows] : n \in 1..MaxDimRows}}

InitDims ==
    /\ CleanIdle
    /\ DashIdle
    /\ ReportIdle
    /\ EnvIdle
    /\ CacheIdle
    /\ lpc = "cleaned"
    /\ nruns = 1
    /\ transactions \in CleanedSets
    /\ dim_truck = Raised
    /\ dim_payment_method = Raised
    /\ disk = EmptyDir
    /\ written = EmptyDir
    /\ bucket = EmptyDir
    /\ up = NoUpload

\* dim_truck = build_truck_metadata(transactions)
BuildTruckMetadata ==
    /\ lpc = "cleaned"
    /\ dim_truck' = build_truck_metadata(transactions)
    /\ lpc' = "trucks"
    /\ UNCHANGED <<nruns, transactions, dim_payment_method, disk, written, bucket, up>>
    /\ UNCHANGED <<cleanVars, dashVars, reportVars, envVars, cacheVars>>

\* dim_payment_method = build_payment_method_metadata(transactions)
BuildPaymentMethodMetadata ==
    /\ lpc = "trucks"
    /\ dim_payment_method' = build_payment_method_metadata(transactions)
    /\ lpc' = "dims"
    /\ UNCHANGED <<nruns, transactions, dim_truck, disk, written, bucket, up>>
    /\ UNCHANGED <<cleanVars, dashVars, reportVars, envVars, cacheVars>>

NextDims == BuildTruckMetadata \/ BuildPaymentMethodMetadata

SpecDims == InitDims /\ [][NextDims]_vars

\* the first row of the cleaned set that carries the truck, resp. method, key
FirstWithTruck(key) ==
    transactions.rows[CHOOSE i \in DOMAIN transactions.rows :
        /\ transactions.rows[i].truck_id = key
        /\ \A j \in 1..(i - 1) : transactions.rows[j].truck_id # key]

FirstWithMethod(key) ==
    transactions.rows[CHOOSE i \in DOMAIN transactions.rows :
        /\ transactions.rows[i].payment_method_id = key
        /\ \A j \in 1..(i - 1) : transactions.rows[j].payment_method_id # key]

TruckKeys ==
    {transactions.rows[i].truck_id : i \in DOMAIN transactions.rows} \ {Null}

MethodKeys ==
    {transactions.rows[i].payment_method_id : i \in DOMAIN transactions.rows} \ {Null}

\* C14: for every cleaned transaction set, build_truck_metadata (resp.
\* build_payment_method_metadata) returns exactly one row per distinct
\* non-null truck_id (resp. payment_method_id) of the input, no row with a
\* null key, and the other attributes of each row are those of the first
\* input row carrying that key, even when later rows with the same key carry
\* different attributes.
C14_DimensionsKeepFirstOfKey ==
    /\ lpc \in {"trucks", "dims"} =>
        /\ dim_truck.st = "ok"
        /\ {dim_truck.rows[k].truck_id : k \in DOMAIN dim_truck.rows} = TruckKeys
        /\ Len(dim_truck.rows) = Cardinality(TruckKeys)
        /\ \A k \in DOMAIN dim_truck.rows :
            LET d == dim_truck.rows[k]
                r == FirstWithTruck(d.truck_id)
            IN  /\ d.truck_name = r.truck_name
                /\ d.truck_description = r.truck_description
                /\ d.has_card_reader = r.has_card_reader
                /\ d.fsa_rating = r.fsa_rating
    /\ lpc = "dims" =>
        /\ dim_payment_method.st = "ok"
        /\ {dim_payment_method.rows[k].payment_method_id :
                k \in DOMAIN dim_payment_method.rows} = MethodKeys
        /\ Len(dim_payment_method.rows) = Cardinality(MethodKeys)
        /\ \A k \in DOMAIN dim_payment_method.rows :
            dim_payment_method.rows[k].payment_method
                = FirstWithMethod(dim_payment_method.rows[k].payment_method_id).payment_method

\* truck 1 is first called Taco and later Wrap, method 1 is first cash and
\* later card: the dimensions say Taco and cash
C14_Witness ==
    /\ lpc = "dims"
    /\ Len(transactions.rows) = 2
    /\ transactions.rows[1].truck_id = IntV(1) /\ transactions.rows[2].truck_id = IntV(1)
    /\ transactions.rows[1].truck_name = StrV(T("Taco"))
    /\ transactions.rows[2].truck_name = StrV(T("Wrap"))
    /\ transactions.rows[1].payment_method_id = IntV(1)
    /\ transactions.rows[2].payment_method_id = IntV(1)
    /\ transactions.rows[1].payment_method = StrV(T("cash"))
    /\ transactions.rows[2].payment_method = StrV(T("card"))
    /\ Len(dim_truck.rows) = 1 /\ dim_truck.rows[1].truck_name = StrV(T("Taco"))
    /\ Len(dim_payment_method.rows) = 1
    /\ dim_payment_method.rows[1].payment_method = StrV(T("cash"))

----------------------------------------------------------------------------
(* compute_payment_mix as a function: any frame whose columns have the types  *)
(* clean_base_df gives them                                                   *)

MixFrames ==
    {DashFrame(rows) :
        rows \in UNION {[1..n -> {CleanBaseCols(r) : r \in LoadedRows}] : n \in 0..MaxPerfRows}}

InitMix ==
    /\ CleanIdle
    /\ LakeIdle
    /\ ReportIdle
    /\ EnvIdle
    /\ CacheIdle
    /\ DashRest
    /\ dpc = "perf"
    /\ dash_df \in MixFrames
    /\ truck_perf = Raised

NextMix == PaymentMix

SpecMix == InitMix /\ [][NextMix]_vars

\* the payment methods of the input, the missing one under its label
MixLabel(v) == IF v.k = "null" THEN StrV(<<"u", "n", "k", "n", "o", "w", "n">>) ELSE v

MixLabels == {MixLabel(dash_df.rows[i].payment_method) : i \in DOMAIN dash_df.rows}

MixCount(label) ==
    Cardinality({i \in DOMAIN dash_df.rows : MixLabel(dash_df.rows[i].payment_method) = label})

SumCounts(rows) ==
    LET S[i \in 0..Len(rows)] == IF i = 0 THEN 0 ELSE S[i - 1] + rows[i].count
    IN  S[Len(rows)]

\* the payment mix agrees with the input it was computed from
MixAgrees ==
    /\ pm.st = "ok"
    /\ {pm.rows[k].payment_method : k \in DOMAIN pm.rows} = MixLabels
    /\ Len(pm.rows) = Cardinality(MixLabels)
    /\ \A k \in DOMAIN pm.rows : pm.rows[k].count = MixCount(pm.rows[k].payment_method)
    /\ \A k \in DOMAIN pm.rows : ~IsNull(pm.rows[k].payment_method)
    /\ SumCounts(pm.rows) = Len(dash_df.rows)

\* C16: compute_payment_mix returns one row per distinct payment method of
\* the input with the number of input transactions having that method, the
\* rows whose method is missing being counted under the single label
\* 'unknown'; the counts sum to the number of input rows and the input row
\* set is not modified.
C16_PaymentMixCounts ==
    [][(dpc = "perf" /\ dpc' = "mix") => (dash_df' = dash_df /\ MixAgrees')]_vars

\* of three transactions two have no payment method and one is cash: two
\* rows, unknown with 2 and cash with 1
C16_Witness ==
    /\ dpc = "mix"
    /\ Len(dash_df.rows) = 3
    /\ pm.rows = <<[payment_method |-> StrV(T("unknown")), count |-> 2],
                   [payment_method |-> StrV(T("cash")), count |-> 1]>>

----------------------------------------------------------------------------
(* Claim about a dashboard script run that fails to load or finds no data *)

Logged(event) == \E i \in DOMAIN log : log[i] = event

\* what the script does after the empty check
Computations ==
    {"dash.kpis", "dash.trend", "dash.truck_perf", "dash.payment_mix", "dash.cues"}

NothingComputed ==
    /\ \A e \in Computations : ~Logged(e)
    /\ kpis = NoKpis
    /\ trend = Raised
    /\ truck_perf = Raised
    /\ pm = Raised
    /\ cues = NoCues

\* the last events of the log are the given ones
LogEndsWith(events) ==
    /\ Len(log) >= Len(events)
    /\ SubSeq(log, Len(log) - Len(events) + 1, Len(log)) = events

\* C17: over one script run, if loading the data raises, an error banner is
\* shown and rendering halts, so no filter is applied and no KPI, chart,
\* table or action cue is computed afterwards; if the load succeeds but the
\* filtered row set is empty, the 'No data available' warning is shown, not
\* an error, and rendering halts before any KPI or aggregate is computed;
\* KPIs and aggregates are only ever computed on a non-empty filtered row set.
C17_FailureHalts ==
    /\ dpc = "error" =>
            /\ LogEndsWith(ErrorBanner)
            /\ ~Logged("dash.filters") /\ ~Logged("dash.warning")
            /\ NothingComputed
            /\ ~ENABLED NextDash
    /\ Logged("dash.error") => dpc = "error"
    /\ dpc = "stopped" =>
            /\ dash_df.rows = <<>>
            /\ LogEndsWith(<<"dash.filters", "dash.warning", "dash.stop">>)
            /\ ~Logged("dash.error")
            /\ NothingComputed
            /\ ~ENABLED NextDash
    /\ Logged("dash.warning") => dpc = "stopped"
    /\ (\E e \in Computations : Logged(e)) =>
            /\ dash_df.st = "ok" /\ dash_df.rows # <<>>
            /\ Logged("dash.filters")

\* the load brought transactions, the filters left none: the warning is
\* shown and nothing is computed
C17_Witness ==
    /\ dpc = "stopped"
    /\ lake.rows # <<>>
    /\ log = <<"dash.session", "dash.query", "dash.filters", "dash.warning", "dash.stop">>
    /\ NothingComputed

----------------------------------------------------------------------------
(* The two read surfaces, each run once from an environment in which the     *)
(* variables are set or not.  The two run in processes of their own; here    *)
(* both find the same variables.                                             *)

MaxConfigRows == 1

\* a few of the rows the dashboard can load, and of the rows of a report day
ConfigRows ==
    {LoadedRow,
     [LoadedRow EXCEPT !.payment_method = Null],
     [LoadedRow EXCEPT !.truck_name = StrV(T("Wrap")), !.payment_method = StrV(T("card"))]}

ConfigDayRows == {r \in BusyRows : r.truck_name = StrV(T("Taco"))}

InitConfig ==
    /\ CleanIdle
    /\ LakeIdle
    /\ DashIdle
    /\ env \in Envs
    /\ log = <<>>
    /\ now = 0
    /\ lake \in {DashFrame(rows) :
                    rows \in UNION {[1..n -> ConfigRows] : n \in 0..MaxConfigRows}}
    /\ cache = [c \in {} |-> <<>>]
    /\ served = <<>>
    /\ rpc = "idle"
    /\ athena \in UNION {Answers(day) :
                            day \in UNION {[1..n -> ConfigDayRows] : n \in 0..MaxConfigRows}}
    /\ metrics = NoMetrics
    /\ html_str = <<>>

NextConfig == NextReport \/ NextDash

SpecConfig == InitConfig /\ [][NextConfig]_vars

OutputMissing == Get(env.ATHENA_S3_OUTPUT) = <<>>

\* C13: when the query output location (ATHENA_S3_OUTPUT) is unset or empty,
\* both read surfaces raise before any query is sent to the query engine: the
\* report's lambda_handler raises in load_config before build_metrics runs,
\* and the dashboard's load_transactions_joined raises before building a
\* session or issuing the query.
C13_FailFastOnMissingOutput ==
    OutputMissing =>
        /\ ~Logged("report.query") /\ ~Logged("dash.session") /\ ~Logged("dash.query")
        /\ rpc \in {"idle", "raised"}
        /\ rpc = "raised" => Logged("report.load_config")
        /\ metrics = NoMetrics /\ html_str = <<>>
        /\ dpc \in {"idle", "error"}
        /\ dpc = "error" => Logged("dash.error")
        /\ dash_df = Raised

\* the database is set, the output location is not: both surfaces have run
\* and raised
C13_Witness ==
    /\ OutputMissing
    /\ Get(env.ATHENA_DATABASE) # <<>>
    /\ rpc = "raised"
    /\ dpc = "error"
    /\ ~Logged("report.query") /\ ~Logged("dash.query")

----------------------------------------------------------------------------
(* st.cache_data on the dashboard read path: requests served through the     *)
(* cache while the clock advances and pipeline runs change the lake.  The    *)
(* cache holds, per function, the result stored for an argument tuple and    *)
(* the time it was stored at.                                                *)

\* ttl=900 of load_transactions_joined and of clean_base_df, in seconds
LoadTtl == 900

\* ttl=300 of apply_filters and of the three aggregators
AggTtl == 300

MaxRequests == 2

\* the clock advances in steps of five minutes up to this time
MaxClock == 900

CachedFunctions ==
    {"load_transactions_joined", "clean_base_df", "apply_filters",
     "compute_trend", "compute_truck_perf", "compute_payment_mix"}

EmptyCache == [fn \in CachedFunctions |-> [a \in {} |-> <<>>]]

\* one call of a cached function at time t: the stored result when there is
\* one for these arguments that has not expired, else the result computed
\* now, which is stored unless the function raised
Call(c, t, fn, args, ttl, fresh) ==
    LET hit == args \in DOMAIN c[fn] /\ t < c[fn][args].at + ttl
        value == IF hit THEN c[fn][args].value ELSE fresh
    IN  [value |-> value,
         cache |-> IF hit \/ fresh.st # "ok" THEN c
                   ELSE [c EXCEPT ![fn] =
                            [a \in DOMAIN @ \cup {args} |->
                                IF a = args THEN [value |-> fresh, at |-> t] ELSE @[a]]],
         call |-> [fn |-> fn, cached |-> value, uncached |-> fresh]]

\* BETWEEN DATE start_dt AND DATE end_dt on the day of the partition
Query(answer, range) ==
    Frame(SelectSeq(answer.rows,
                    LAMBDA r : range[1] <= r.day_dt.t[3] /\ r.day_dt.t[3] <= range[2]))

\* the date ranges of the sidebar: a day of March 2024, or it and the next
Ranges == {<<5, 5>>, <<5, 6>>}

\* the transactions the lake can hold: of the first day, of the second day
LakeRows ==
    <<[LoadedRow EXCEPT !.transaction_id = IntV(1)],
      [LoadedRow EXCEPT !.transaction_id = IntV(2), !.idx = 1,
                        !.truck_name = StrV(T("Wrap")), !.payment_method = StrV(T("card")),
                        !.day_dt = TsV(2024, 3, 6, 0, 0), !.hour_ts = TsV(2024, 3, 6, 9, 0)]>>

Lakes == {Frame(Pick(LakeRows, S)) : S \in SUBSET (1..Len(LakeRows))}

InitCache ==
    /\ CleanIdle
    /\ LakeIdle
    /\ DashIdle
    /\ ReportIdle
    /\ EnvIdle
    /\ now = 0
    /\ lake \in Lakes
    /\ cache = EmptyCache
    /\ served = [n |-> 0, calls |-> <<>>]

\* one run of the script with its cached calls: the load, the base cleaning,
\* the filters, and, unless the script stops or raises before, the three
\* aggregators
Request ==
    /\ served.n < MaxRequests
    /\ \E range \in Ranges :
       \E payment_filter \in {{}, {T("cash")}} :
       \E time_grain \in {"Daily", "Hourly"} :
       \E c1 \in {Call(cache, now, "load_transactions_joined", <<AppConfig(env), range>>,
                        LoadTtl, Query(lake, range))} :
       \E c2 \in {Call(c1.cache, now, "clean_base_df", <<c1.value>>,
                        LoadTtl, clean_base_df(c1.value))} :
       \E selected_trucks \in {AllTrucks(c2.value.rows, payment_filter)} :
       \E c3 \in {Call(c2.cache, now, "apply_filters",
                        <<c2.value, payment_filter, selected_trucks>>,
                        AggTtl, apply_filters(c2.value, payment_filter, selected_trucks))} :
            IF c3.value.rows = <<>> \/ CashShare(c3.value.rows)[2] = 0
            THEN /\ cache' = c3.cache
                 /\ served' = [n |-> served.n + 1, calls |-> <<c1.call, c2.call, c3.call>>]
            ELSE \E c4 \in {Call(c3.cache, now, "compute_trend", <<c3.value, time_grain>>,
                                  AggTtl, compute_trend(c3.value, time_grain))} :
                 \E c5 \in {Call(c4.cache, now, "compute_truck_perf", <<c3.value>>,
                                  AggTtl, compute_truck_perf(c3.value))} :
                 \E c6 \in {Call(c5.cache, now, "compute_payment_mix", <<c3.value>>,
                                  AggTtl, compute_payment_mix(c3.value))} :
                    IF c5.value.st # "ok"
                    THEN /\ cache' = c5.cache
                         /\ served' = [n |-> served.n + 1,
                                       calls |-> <<c1.call, c2.call, c3.call, c4.call,
                                                   c5.call>>]
                    ELSE /\ cache' = c6.cache
                         /\ served' = [n |-> served.n + 1,
                                       calls |-> <<c1.call, c2.call, c3.call, c4.call,
                                                   c5.call, c6.call>>]
    /\ UNCHANGED <<now, lake>>
    /\ UNCHANGED <<cleanVars, lakeVars, dashVars, reportVars, envVars>>

\* a pipeline run and its upload change what the lake holds
LakeChanges ==
    /\ lake' \in Lakes \ {lake}
    /\ UNCHANGED <<now, cache, served>>
    /\ UNCHANGED <<cleanVars, lakeVars, dashVars, reportVars, envVars>>

\* five minutes pass
Tick ==
    /\ now < MaxClock
    /\ now' = now + AggTtl
    /\ UNCHANGED <<lake, cache, served>>
    /\ UNCHANGED <<cleanVars, lakeVars, dashVars, reportVars, envVars>>

NextCache == Request \/ LakeChanges \/ Tick

SpecCache == InitCache /\ [][NextCache]_vars

\* C12: the memoization of the dashboard read path is transparent: for any
\* sequence of dashboard requests interleaved with pipeline runs that change
\* the lake, the result returned with caching by load_transactions_joined,
\* clean_base_df, apply_filters and the three aggregators is identical to the
\* result the same call would return with caching disabled.
C12_MemoizationTransparent ==
    \A i \in DOMAIN served.calls : served.calls[i].cached = served.calls[i].uncached

============================================================================
